---------------------------- MODULE Spec2Model ----------------------------
(***************************************************************************)
(* vtipy2: variable-temperature impedance measurements.                    *)
(*                                                                         *)
(* The model covers the running page of src/vtipy2.py (the GUI thread with *)
(* its constructor and button handlers, the experiment thread, the         *)
(* temperature sampler thread) and the measurement thread of               *)
(* src/hardware/solartron.py, which src/hardware/virtual.py inherits.      *)
(*                                                                         *)
(* Units.  Temperatures and rates are integers in thousandths (0.001 C),   *)
(* so that round(x, 2) is a real conversion; a value rounded to two        *)
(* decimals is an integer in hundredths.  Frequencies are log10(f) in      *)
(* thousandths of a decade.  The clock counts half seconds.  Text is a      *)
(* sequence of one-character strings.                                      *)
(***************************************************************************)
EXTENDS Integers, Sequences, FiniteSets, TLC

(***************************************************************************)
(* Bounds of the model.                                                    *)
(***************************************************************************)
MaxClock == 1
MaxSamples == 1
MaxFailures == 2
MaxStopPresses == 1
MaxSleepsDuringStop == 1
MaxLogClock == 3
MaxLogSamples == 3
MaxSweepPoints == 3
MaxSweepFailures == 2
MaxRamps == 1
MaxListed == 3
MaxDiscarded == 2
MaxRestarts == 2

(***************************************************************************)
(* Arithmetic and text helpers.                                            *)
(***************************************************************************)
Abs(x) == IF x < 0 THEN -x ELSE x

\* int(a / b) of Python: the quotient truncated toward zero
TruncDiv(a, b) ==
    IF (a >= 0) = (b > 0) THEN Abs(a) \div Abs(b) ELSE -(Abs(a) \div Abs(b))

\* round(x, 2): thousandths to hundredths, nearest, ties to even
Round2(x) ==
    LET q == x \div 10
        r == x % 10
    IN  IF r < 5 THEN q
        ELSE IF r > 5 THEN q + 1
        ELSE IF q % 2 = 0 THEN q ELSE q + 1

DigitChars == <<"0", "1", "2", "3", "4", "5", "6", "7", "8", "9">>

DigitChar(d) == DigitChars[d + 1]

IsDigit(c) == \E d \in 0..9 : DigitChars[d + 1] = c

CharDigit(c) == CHOOSE d \in 0..9 : DigitChars[d + 1] = c

RECURSIVE NatStr(_)
NatStr(n) == IF n < 10 THEN <<DigitChar(n)>>
             ELSE NatStr(n \div 10) \o <<DigitChar(n % 10)>>

TwoDigits(n) == <<DigitChar((n \div 10) % 10), DigitChar(n % 10)>>

\* the decimals written without their leading zero
Fmt2fUnpadded(v) ==
    (IF v < 0 THEN <<"-">> ELSE <<>>)
      \o NatStr(Abs(v) \div 100) \o <<".">> \o NatStr(Abs(v) % 100)

\* "{:.2f}".format(v) for v in hundredths
Fmt2f(v) ==
    (IF v < 0 THEN <<"-">> ELSE <<>>)
      \o NatStr(Abs(v) \div 100) \o <<".">> \o TwoDigits(Abs(v) % 100)

\* str(datetime.timedelta(seconds = s)), s whole seconds
TimedeltaStr(s) ==
    (IF s >= 86400
       THEN NatStr(s \div 86400)
              \o (IF s \div 86400 = 1
                    THEN <<" ", "d", "a", "y", ",", " ">>
                    ELSE <<" ", "d", "a", "y", "s", ",", " ">>)
       ELSE <<>>)
      \o NatStr((s % 86400) \div 3600) \o <<":">>
      \o TwoDigits((s % 3600) \div 60) \o <<":">> \o TwoDigits(s % 60)

\* line.strip().split(",")
RECURSIVE SplitFrom(_, _, _)
SplitFrom(line, from, k) ==
    IF k > Len(line) THEN <<SubSeq(line, from, Len(line))>>
    ELSE IF line[k] = ","
      THEN <<SubSeq(line, from, k - 1)>> \o SplitFrom(line, k + 1, k + 1)
    ELSE SplitFrom(line, from, k + 1)

Split(line) == SplitFrom(line, 1, 1)

RECURSIVE DigitsVal(_)
DigitsVal(ds) == IF ds = <<>> THEN 0
                 ELSE 10 * DigitsVal(SubSeq(ds, 1, Len(ds) - 1)) + CharDigit(ds[Len(ds)])

\* the parts of a decimal text: sign, digits before and after the point
FloatParts(text) ==
    LET neg == text # <<>> /\ text[1] = "-"
        body == IF neg THEN SubSeq(text, 2, Len(text)) ELSE text
        dot == {k \in 1..Len(body) : body[k] = "."}
    IN  [neg |-> neg,
         dots |-> Cardinality(dot),
         ip |-> IF dot = {} THEN body
                ELSE SubSeq(body, 1, (CHOOSE k \in dot : \A m \in dot : k <= m) - 1),
         fp |-> IF dot = {} THEN <<>>
                ELSE SubSeq(body, (CHOOSE k \in dot : \A m \in dot : k <= m) + 1,
                            Len(body))]

\* float(text) does not raise; the texts of the model are [-]digits[.d[d]]
IsFloat(text) ==
    LET p == FloatParts(text)
    IN  /\ p.dots <= 1
        /\ p.ip # <<>>
        /\ \A k \in 1..Len(p.ip) : IsDigit(p.ip[k])
        /\ Len(p.fp) <= 2
        /\ \A k \in 1..Len(p.fp) : IsDigit(p.fp[k])

\* float(text), in hundredths
ParseFloat(text) ==
    LET p == FloatParts(text)
        mag == 100 * DigitsVal(p.ip)
                 + (IF Len(p.fp) = 1 THEN 10 * DigitsVal(p.fp) ELSE DigitsVal(p.fp))
    IN  IF p.neg THEN -mag ELSE mag


Min(a, b) == IF a < b THEN a ELSE b

Reverse(s) == [k \in 1..Len(s) |-> s[Len(s) + 1 - k]]

\* np.logspace(lo, hi, num = n), as exponents: n points from lo to hi inclusive
Logspace(lo, hi, n) ==
    [k \in 1..n |-> IF n = 1 THEN lo ELSE lo + ((k - 1) * (hi - lo)) \div (n - 1)]

(***************************************************************************)
(* class Ramp.  start_temp, end_temp and rate are in thousandths, interval *)
(* in whole degrees (input_ramp reads it with int()), fmin and fmax are    *)
(* log10 of the frequency in thousandths, scan_at_first_T is the entry     *)
(* text.  The result is the object after __init__.                         *)
(***************************************************************************)
RampUp(start_temp, end_temp) == start_temp <= end_temp

\* The cap applied whatever the direction of the ramp
RampRateAnyDirection(start_temp, end_temp, rate) ==
    IF rate > 15000 THEN 15000 ELSE rate

RampRate(start_temp, end_temp, rate) ==
    IF ~RampUp(start_temp, end_temp) /\ rate > 15000 THEN 15000 ELSE rate

RampNumIntervals(start_temp, end_temp, interval) ==
    Abs(TruncDiv(end_temp - start_temp, interval * 1000))

RampInterval(start_temp, end_temp, interval) ==
    IF ~RampUp(start_temp, end_temp) THEN -Abs(interval) ELSE interval

RampAllTemps(start_temp, end_temp, interval) ==
    [i \in 1..(RampNumIntervals(start_temp, end_temp, interval) + 1) |->
        10 * Round2(start_temp
                    + (i - 1) * RampInterval(start_temp, end_temp, interval) * 1000)]

RampTemps(start_temp, end_temp, interval, scan_at_first_T) ==
    IF scan_at_first_T = "n"
      THEN Tail(RampAllTemps(start_temp, end_temp, interval))
      ELSE RampAllTemps(start_temp, end_temp, interval)

RampScan(scan_at_first_T) ==
    IF scan_at_first_T = "y" THEN "True"
    ELSE IF scan_at_first_T = "n" THEN "False" ELSE "None"

RampNumpoints(fmin, fmax, ppd) == TruncDiv(ppd * (fmax - fmin), 1000)

RampFrange(fmin, fmax, ppd) ==
    Reverse(Logspace(fmin, fmax, RampNumpoints(fmin, fmax, ppd)))

Ramp(num, start_temp, end_temp, rate, interval, min_holdtime, voltage, fmin, fmax, ppd, num_sweeps, sweep_delay, scan_at_first_T) ==
    [num             |-> num,
     interval        |-> RampInterval(start_temp, end_temp, interval),
     start_temp      |-> start_temp,
     end_temp        |-> end_temp,
     rate            |-> RampRate(start_temp, end_temp, rate),
     min_holdtime    |-> min_holdtime,
     voltage         |-> voltage,
     fmin            |-> fmin,
     fmax            |-> fmax,
     ppd             |-> ppd,
     num_sweeps_at_T |-> num_sweeps,
     sweep_delay     |-> sweep_delay,
     scan_at_first_T |-> RampScan(scan_at_first_T),
     up              |-> RampUp(start_temp, end_temp),
     num_intervals   |-> RampNumIntervals(start_temp, end_temp, interval),
     temps           |-> RampTemps(start_temp, end_temp, interval, scan_at_first_T),
     numpoints       |-> RampNumpoints(fmin, fmax, ppd),
     frange          |-> RampFrange(fmin, fmax, ppd)]

(***************************************************************************)
(* The experiments the running page is started with: lists of ramps that   *)
(* RampInputPage.sanity_check accepts and ReviewRampsPage can display.     *)
(***************************************************************************)
RampsA == <<Ramp(1, 30000, 30000, 5000, 10, 1, 50000, 1000, 3000, 1, 2, 5, "y")>>

RampsB == <<Ramp(1, 40000, 30000, 20000, 10, 1, 50000, 1000, 3000, 1, 1, 5, "n"),
            Ramp(2, 30000, 40000, 5000, 10, 2, 50000, 1000, 3000, 1, 0, 5, "y")>>

\* The set-ups: the ramps entered and the stage chosen on the start page
Experiments == {[ramps |-> RampsA, stage |-> "linkam"],
                [ramps |-> RampsB, stage |-> "virtual"]}

\* Values stage.get_temperature() may return (thousandths)
Temperatures == {28500, 29000, 29996, 30204, 40000}

\* Values read by the sampler and for Tcell in the full system
SampleTemperatures == {29996}

\* Values read by the sampler on its own, thousandths: below zero, rounded up
\* and down, a tie, a zero among the decimals, three digits before the point
LogTemperatures == {-5005, 125, 29996, 30054, 100000}

\* stage.update_tolerance(temp): the tolerance the driver reports for a target
ToleranceFor(target) == 200

None == "None"

\* details.json: empty while a writer has opened it and not yet written
Truncated == [empty |-> TRUE, complete |-> FALSE, has_time_elapsed |-> FALSE,
              time_elapsed |-> <<>>]

\* details.json as StartPage.start_button_func and save_ramps leave it
InitDetails == [empty |-> FALSE, complete |-> FALSE, has_time_elapsed |-> FALSE,
                time_elapsed |-> <<>>]

VARIABLES
    ramps,                  \* global ramps
    stage_kind,             \* class of the global stage
    analyser_kind,          \* class of the global analyser
    analyser_replies,       \* what the instrument sends: "well_formed" or "any"
    \* StartPage.start_button_func
    name_entry,             \* the name typed, split at "_"
    experiment_name,        \* global experiment_name, split at "_"
    duplicate_num,
    experiments,            \* the directories in "experiments"
    start_pc,
    \* RampInputPage
    ramp_count, page_pc, fault, entry,
    clock,                  \* time.perf_counter(), half seconds
    terminated,             \* the process has exited
    \* GUI thread
    gui_pc, json_dict,
    \* attributes of the RunningPage
    start_time, stop_thread, complete, btn_stop, info_data, lbl_status,
    \* experiment thread
    c_pc, ramp_idx, temp_interval_num, first_iter, holdtime_remaining,
    sweep_num, seconds_elapsed, Tcell, Z_measurement_thread, jsondict,
    \* sampler thread
    t_pc, temperature, seconds,
    \* measurement threads
    zthreads, failures,
    \* stage
    stage_target, stage_hold, stage_tolerance,
    \* files of the experiment directory
    details, temperature_data, experiment_log, dirs, files, temp_profile,
    \* history
    samples_written, stop_presses, stop_pressed_at, c_sleeps, passed_poll,
    point_events, points_done, point_calls

nameVars == <<name_entry, experiment_name, duplicate_num, experiments, start_pc>>
globalVars == <<ramps, stage_kind, analyser_kind, analyser_replies, ramp_count,
                page_pc, fault, entry, nameVars>>
guiVars == <<gui_pc, json_dict>>
attrVars == <<start_time, stop_thread, complete, btn_stop, info_data, lbl_status>>
ctlVars == <<c_pc, ramp_idx, temp_interval_num, first_iter, holdtime_remaining,
             sweep_num, seconds_elapsed, Tcell, Z_measurement_thread, jsondict>>
samplerVars == <<t_pc, temperature, seconds>>
measVars == <<zthreads, failures>>
stageVars == <<stage_target, stage_hold, stage_tolerance>>
fileVars == <<details, temperature_data, experiment_log, dirs, files, temp_profile>>
histVars == <<samples_written, stop_presses, stop_pressed_at>>
ctlHist == <<c_sleeps, passed_poll, point_events, points_done, point_calls>>


vars == <<globalVars, clock, terminated, guiVars, attrVars, ctlVars, samplerVars,
          measVars, stageVars, fileVars, histVars, ctlHist>>

\* The ramp and set-point the experiment thread is at
ramp == ramps[ramp_idx]
\* every point of a ramp taken to be its last
tempLast == ramp.temps[Len(ramp.temps)]

temp == ramp.temps[temp_interval_num + 1]

RampDir(r) == <<r.num, IF r.up THEN "up" ELSE "down">>

\* The calls the experiment thread has made at the temperature point it is at:
\* the last get_holdtime_remaining() and get_temperature() of the Reaching
\* loop, the passes of that loop after the first (counted up to MaxRestarts),
\* the toggle_hold() calls, the seconds slept before the sweep to come, whether
\* Tcell has been read since; and, over the run, the set-points heating was
\* first started for
NoCalls ==
    [hold_read |-> <<>>, T_read |-> <<>>, restarts |-> 0, toggles |-> 0,
     waited |-> 0, tcell_read |-> FALSE, heated |-> <<>>]

\* setup_info / setup_row: every data label starts as "-"
InitInfoData ==
    [TimeElapsed |-> <<"-">>, Temperature |-> <<"-">>, Ramp |-> <<"-">>,
     TemperaturePoint |-> <<"-">>, ImpedanceSweep |-> <<"-">>,
     ImpedanceScan |-> <<"-">>]

\* The ramp input page once save_ramps has stored the ramps and left the page
InitRampsSaved ==
    /\ analyser_kind = "1260"
    /\ ramp_count = Len(ramps)
    /\ page_pc = "saved"
    /\ fault = None
    /\ entry = <<>>

\* StartPage.start_button_func has created the directory of the experiment
NameChosen ==
    /\ name_entry = <<"exp">>
    /\ experiment_name = <<"exp">>
    /\ duplicate_num = 1
    /\ experiments = {<<"exp">>}
    /\ start_pc = "created"

\* neither a thread nor the stage has been started, the files are as
\* start_button_func writes them; unset gives what an attribute or a local
\* variable holds before its first assignment
NotStartedWith(unset) ==
    /\ clock = 0
    /\ terminated = FALSE
    /\ gui_pc = "setup_plot"
    /\ json_dict = None
    /\ start_time = <<>>
    /\ stop_thread = unset.flag
    /\ complete = unset.flag
    /\ btn_stop = "STOP"
    /\ info_data = InitInfoData
    /\ lbl_status = <<"Experiment is Starting.">>
    /\ c_pc = "not_started"
    /\ ramp_idx = 1
    /\ temp_interval_num = 0
    /\ first_iter = TRUE
    /\ holdtime_remaining = 0
    /\ sweep_num = 0
    /\ seconds_elapsed = 0
    /\ Tcell = unset.number
    /\ Z_measurement_thread = 0
    /\ jsondict = unset.dict
    /\ t_pc = "not_started"
    /\ temperature = unset.number
    /\ seconds = unset.number
    /\ zthreads = <<>>
    /\ failures = 0
    /\ stage_target = <<>>
    /\ stage_hold = FALSE
    /\ stage_tolerance = unset.number
    /\ details = InitDetails
    /\ temperature_data = <<>>
    /\ experiment_log = <<>>
    /\ dirs = {}
    /\ files = <<>>
    /\ temp_profile = <<>>
    /\ samples_written = <<>>
    /\ stop_presses = 0
    /\ stop_pressed_at = "none"
    /\ c_sleeps = 0
    /\ passed_poll = FALSE
    /\ point_events = <<>>
    /\ points_done = <<>>
    /\ point_calls = NoCalls

\* nothing assigned yet
Unset == [flag |-> None, number |-> None, dict |-> None]

NotStarted == NotStartedWith(Unset)

\* RunningPage.__init__ is entered: details.json as StartPage and save_ramps left it
InitCommon ==
    /\ analyser_replies = "well_formed"
    /\ NameChosen
    /\ NotStarted

Init ==
    /\ \E e \in Experiments : ramps = e.ramps /\ stage_kind = e.stage
    /\ InitRampsSaved
    /\ InitCommon

(***************************************************************************)
(* RunningPage.update_status and update_measurement_info.  A log line also *)
(* carries the wall-clock time and the temperature label, which are left   *)
(* out of the line here.                                                   *)
(***************************************************************************)
LogLine(status) ==
    [status |-> status, ramp |-> info_data.Ramp,
     temp_point |-> info_data.TemperaturePoint]

\* every status logged, whatever the flag
update_statusAlways(status, log) ==
    /\ lbl_status' = status
    /\ experiment_log' = Append(experiment_log, LogLine(status))

update_status(status, log) ==
    /\ lbl_status' = status
    /\ experiment_log' = IF log THEN Append(experiment_log, LogLine(status))
                         ELSE experiment_log

MeasurementInfo(info, t, r, interval_num, sweep) ==
    [info EXCEPT !.Ramp = <<r.num, Len(ramps)>>,
                 !.TemperaturePoint = <<t, interval_num, r.num_intervals + 1>>,
                 !.ImpedanceSweep = <<sweep, r.num_sweeps_at_T>>,
                 !.ImpedanceScan = <<"-", "-", ToString(Len(r.frange))>>]

(***************************************************************************)
(* The stage.  virtual.stage ignores every command; the state below is     *)
(* what a driven stage is asked to do (hardware/linkam.py is not part of   *)
(* the sources).                                                           *)
(***************************************************************************)
start_heating(target) == stage_target' = <<target>>

stop_heating == stage_target' = <<>>

toggle_hold == stage_hold' = ~stage_hold

\* stage.get_holdtime_remaining(): 0 while heating or cooling, positive when holding
HoldtimeReadings == {0, 1}

(***************************************************************************)
(* RunningPage.experiment_mainloop, the experiment thread.                 *)
(***************************************************************************)
Running(pc) == ~terminated /\ c_pc = pc

\* The positions of the GUI thread inside stop_button_func
StopPcs == {"stop_read", "stop_trunc", "stop_write", "stop_flag", "stop_plot",
            "stop_exit"}

\* a step of the experiment thread without a time.sleep
Awake == UNCHANGED <<c_sleeps, passed_poll>>

\* The positions of the GUI thread in RunningPage.__init__ after it has started
\* the experiment thread
CtorPcs == {"start_time", "read_datetime"}

\* a step of the experiment thread with a time.sleep of a second or more: the
\* two statements left of the constructor are over before, and the stop
\* handler, which sleeps for half a second itself, lets only so many pass
Sleep ==
    /\ gui_pc \notin CtorPcs
    /\ IF gui_pc \in StopPcs
         THEN c_sleeps < MaxSleepsDuringStop /\ c_sleeps' = c_sleeps + 1
         ELSE UNCHANGED c_sleeps
    /\ passed_poll' = (passed_poll \/ stop_thread)

\* What the experiment thread has done at the temperature point it is at
NoEvent == UNCHANGED <<point_events, points_done, point_calls>>

Event(e) ==
    /\ point_events' = Append(point_events, e)
    /\ UNCHANGED <<points_done, point_calls>>

\* a call of the experiment thread noted, the events of the point as they are
Call(calls) == point_calls' = calls /\ UNCHANGED <<point_events, points_done>>

\* the loop over the ramps left a ramp early
RampsLeftShort == ramp_idx < Len(ramps)

\* line 890, the loop over the ramps
RampsLeft == ramp_idx <= Len(ramps)

\* the hold loop left a second early
HoldtimeLeftShort == holdtime_remaining > 1

\* line 962, the condition of the hold loop
HoldtimeLeft == holdtime_remaining > 0

\* lines 876-882: flags, then the sampler thread is started
ExperimentInit ==
    /\ Running("init")
    /\ NoEvent
    /\ Awake
    /\ complete' = FALSE
    /\ stop_thread' = FALSE
    /\ t_pc' = "check"
    /\ c_pc' = "log_start"
    /\ UNCHANGED <<globalVars, clock, terminated, guiVars, start_time, btn_stop,
                   info_data, lbl_status, ramp_idx, temp_interval_num, first_iter,
                   holdtime_remaining, sweep_num, seconds_elapsed, Tcell,
                   Z_measurement_thread, jsondict, temperature, seconds, measVars,
                   stageVars, fileVars, histVars>>

\* lines 885-888: the log file is created and the first status logged
ExperimentLogStart ==
    /\ Running("log_start")
    /\ NoEvent
    /\ Awake
    /\ lbl_status' = <<"Experiment is Starting.">>
    /\ experiment_log' = <<[status |-> <<"Experiment Log File">>, ramp |-> None,
                            temp_point |-> None],
                           LogLine(<<"Experiment is Starting.">>)>>
    /\ c_pc' = "ramp"
    /\ UNCHANGED <<globalVars, clock, terminated, guiVars, start_time, stop_thread,
                   complete, btn_stop, info_data, ramp_idx, temp_interval_num,
                   first_iter, holdtime_remaining, sweep_num, seconds_elapsed, Tcell,
                   Z_measurement_thread, jsondict, samplerVars, measVars, stageVars,
                   details, temperature_data, dirs, files, temp_profile, histVars>>

\* lines 890-895: next ramp, its directory; or the loop is over
ExperimentNextRamp ==
    /\ Running("ramp")
    /\ NoEvent
    /\ Awake
    /\ IF RampsLeft
         THEN IF RampDir(ramp) \in dirs
                THEN c_pc' = "dead" /\ UNCHANGED <<dirs, temp_interval_num>>
                ELSE /\ dirs' = dirs \cup {RampDir(ramp)}
                     /\ temp_interval_num' = 0
                     /\ c_pc' = "point"
         ELSE c_pc' = "complete_status" /\ UNCHANGED <<dirs, temp_interval_num>>
    /\ UNCHANGED <<globalVars, clock, terminated, guiVars, attrVars, ramp_idx,
                   first_iter, holdtime_remaining, sweep_num, seconds_elapsed, Tcell,
                   Z_measurement_thread, jsondict, samplerVars, measVars, stageVars,
                   details, temperature_data, experiment_log, files, temp_profile,
                   histVars>>

(***************************************************************************)
(* RunningPage.ramp_and_measure.                                           *)
(***************************************************************************)
\* lines 926-931: next temperature point of the ramp, or the ramp is over
RampNextPoint ==
    /\ Running("point")
    /\ Awake
    /\ IF temp_interval_num < Len(ramp.temps)
         THEN /\ info_data' = MeasurementInfo(info_data, temp, ramp,
                                              temp_interval_num + 1, 0)
              /\ first_iter' = TRUE
              /\ c_pc' = "heat"
              /\ Call([NoCalls EXCEPT !.heated = point_calls.heated])
              /\ UNCHANGED ramp_idx
         ELSE /\ ramp_idx' = ramp_idx + 1
              /\ c_pc' = "ramp"
              /\ NoEvent
              /\ UNCHANGED <<info_data, first_iter>>
    /\ UNCHANGED <<globalVars, clock, terminated, guiVars, start_time, stop_thread,
                   complete, btn_stop, lbl_status, temp_interval_num,
                   holdtime_remaining, sweep_num, seconds_elapsed, Tcell,
                   Z_measurement_thread, jsondict, samplerVars, measVars, stageVars,
                   fileVars, histVars>>

\* lines 933-937: heating is (re)started and the status shown, logged the first time
RampStartHeating ==
    /\ Running("heat")
    /\ Call(IF first_iter
              THEN [point_calls EXCEPT !.heated = Append(@, <<ramp.num, temp>>)]
              ELSE [point_calls EXCEPT !.restarts = Min(@ + 1, MaxRestarts)])
    /\ Sleep
    /\ start_heating(temp)
    /\ update_status(<<"Heating/Cooling to", temp>>, first_iter)
    /\ first_iter' = FALSE
    /\ c_pc' = "wait_hold"
    /\ UNCHANGED <<globalVars, clock, terminated, guiVars, start_time, stop_thread,
                   complete, btn_stop, info_data, ramp_idx, temp_interval_num,
                   holdtime_remaining, sweep_num, seconds_elapsed, Tcell,
                   Z_measurement_thread, jsondict, samplerVars, measVars, stage_hold,
                   stage_tolerance, details, temperature_data, dirs, files,
                   temp_profile, histVars>>

\* lines 940-941: poll until the stage reports a hold time
RampWaitHold ==
    /\ Running("wait_hold")
    /\ Awake
    /\ \E h \in HoldtimeReadings :
         /\ c_pc' = IF h = 0 THEN "wait_hold" ELSE "check"
         /\ Call([point_calls EXCEPT !.hold_read = <<h>>])
    /\ UNCHANGED <<globalVars, clock, terminated, guiVars, attrVars, ramp_idx,
                   temp_interval_num, first_iter, holdtime_remaining, sweep_num,
                   seconds_elapsed, Tcell, Z_measurement_thread, jsondict,
                   samplerVars, measVars, stageVars, fileVars, histVars>>

\* a band of two degrees either side
WithinDegreeWide(t, target) == target - 2000 <= t /\ t <= target + 2000

WithinDegree(t, target) == target - 1000 <= t /\ t <= target + 1000

\* lines 943-945: within a degree of the target, else heat again
RampCheckReached ==
    /\ Running("check")
    /\ Awake
    /\ \E t \in Temperatures :
         /\ point_calls' = [point_calls EXCEPT !.T_read = <<t>>]
         /\ UNCHANGED points_done
         /\ IF WithinDegree(t, temp)
              THEN c_pc' = "hold_on" /\ point_events' = Append(point_events, "reached")
              ELSE c_pc' = "heat" /\ UNCHANGED point_events
    /\ UNCHANGED <<globalVars, clock, terminated, guiVars, attrVars, ramp_idx,
                   temp_interval_num, first_iter, holdtime_remaining, sweep_num,
                   seconds_elapsed, Tcell, Z_measurement_thread, jsondict,
                   samplerVars, measVars, stageVars, fileVars, histVars>>

\* what the experiment thread never writes after it has started the sampler
ctlNever == <<globalVars, clock, terminated, guiVars, start_time, stop_thread,
              samplerVars, failures, temperature_data, histVars>>

\* lines 947-951 and 957-959: hold is toggled on; a virtual stage goes straight
\* to the hold time, any other stage has its tolerance updated and settles first
RampHoldOn ==
    /\ Running("hold_on")
    /\ Call([point_calls EXCEPT !.toggles = @ + 1, !.hold_read = <<>>,
                                !.T_read = <<>>, !.restarts = 0])
    /\ Awake
    /\ toggle_hold
    /\ first_iter' = TRUE
    /\ IF stage_kind = "virtual"
         THEN /\ holdtime_remaining' = ramp.min_holdtime
              /\ c_pc' = "dwell"
              /\ UNCHANGED stage_tolerance
         ELSE /\ stage_tolerance' = ToleranceFor(temp)
              /\ c_pc' = "settle"
              /\ UNCHANGED holdtime_remaining
    /\ UNCHANGED <<ctlNever, complete, btn_stop, info_data, lbl_status, ramp_idx,
                   temp_interval_num, sweep_num, seconds_elapsed, Tcell,
                   Z_measurement_thread, jsondict, zthreads, stage_target, details,
                   experiment_log, dirs, files, temp_profile>>

WithinTolerance(t, target) ==
    target - stage_tolerance <= t /\ t <= target + stage_tolerance

\* lines 952-959: poll until the temperature is within the tolerance
RampSettle ==
    /\ Running("settle")
    /\ \E t \in Temperatures :
         IF WithinTolerance(t, temp)
           THEN /\ holdtime_remaining' = ramp.min_holdtime
                /\ first_iter' = TRUE
                /\ c_pc' = "dwell"
                /\ Awake
                /\ Event("settled")
                /\ UNCHANGED <<lbl_status, experiment_log>>
           ELSE /\ update_status(<<"Temperature not T, holding", temp>>, first_iter)
                /\ Sleep
                /\ NoEvent
                /\ first_iter' = FALSE
                /\ c_pc' = "settle"
                /\ UNCHANGED holdtime_remaining
    /\ UNCHANGED <<ctlNever, complete, btn_stop, info_data, ramp_idx,
                   temp_interval_num, sweep_num, seconds_elapsed, Tcell,
                   Z_measurement_thread, jsondict, zthreads, stageVars, details,
                   dirs, files, temp_profile>>

\* lines 960-964: one second of the hold time, or the hold time is over
RampDwell ==
    /\ Running("dwell")
    /\ IF HoldtimeLeft
         THEN /\ update_status(<<"Holding at T", temp, holdtime_remaining>>, first_iter)
              /\ Sleep
              /\ Event("tick")
              /\ first_iter' = FALSE
              /\ holdtime_remaining' = holdtime_remaining - 1
              /\ c_pc' = "dwell"
              /\ UNCHANGED sweep_num
         ELSE /\ sweep_num' = 0
              /\ c_pc' = "sweeps"
              /\ Awake
              /\ NoEvent
              /\ UNCHANGED <<lbl_status, experiment_log, first_iter,
                             holdtime_remaining>>
    /\ UNCHANGED <<ctlNever, complete, btn_stop, info_data, ramp_idx,
                   temp_interval_num, seconds_elapsed, Tcell, Z_measurement_thread,
                   jsondict, zthreads, stageVars, details, dirs, files,
                   temp_profile>>

\* the loop over the sweeps run once more
SweepsLeftOneMore == sweep_num <= ramp.num_sweeps_at_T

\* line 969, the loop over the sweeps of a point
SweepsLeft == sweep_num < ramp.num_sweeps_at_T

\* lines 967-975 and 993-994: next sweep of the point, or none (left)
RampNextSweep ==
    /\ Running("sweeps")
    /\ NoEvent
    /\ Awake
    /\ IF ramp.num_sweeps_at_T # 0
         THEN IF SweepsLeft
                THEN /\ info_data' = MeasurementInfo(info_data, temp, ramp,
                                                     temp_interval_num + 1,
                                                     sweep_num + 1)
                     /\ IF sweep_num # 0
                          THEN /\ first_iter' = TRUE
                               /\ seconds_elapsed' = 0
                               /\ c_pc' = "delay"
                          ELSE /\ c_pc' = "tcell"
                               /\ UNCHANGED <<first_iter, seconds_elapsed>>
                     /\ UNCHANGED <<lbl_status, experiment_log>>
                ELSE /\ c_pc' = "hold_off"
                     /\ UNCHANGED <<info_data, first_iter, seconds_elapsed,
                                    lbl_status, experiment_log>>
         ELSE /\ update_status(<<"No sweeps to be carried during this ramp.">>, TRUE)
              /\ c_pc' = "hold_off"
              /\ UNCHANGED <<info_data, first_iter, seconds_elapsed>>
    /\ UNCHANGED <<ctlNever, complete, btn_stop, ramp_idx, temp_interval_num,
                   holdtime_remaining, sweep_num, Tcell, Z_measurement_thread,
                   jsondict, zthreads, stageVars, details, dirs, files,
                   temp_profile>>

\* lines 976-979: one second of the delay between sweeps, or the delay is over
RampSweepDelay ==
    /\ Running("delay")
    /\ IF seconds_elapsed < ramp.sweep_delay
         THEN /\ update_status(<<"Waiting to perform next impedance sweep",
                                 ramp.sweep_delay - seconds_elapsed>>, first_iter)
              /\ Sleep
              /\ Call([point_calls EXCEPT !.waited = @ + 1, !.tcell_read = FALSE])
              /\ first_iter' = FALSE
              /\ seconds_elapsed' = seconds_elapsed + 1
              /\ c_pc' = "delay"
         ELSE /\ c_pc' = "tcell"
              /\ Awake
              /\ NoEvent
              /\ UNCHANGED <<lbl_status, experiment_log, first_iter, seconds_elapsed>>
    /\ UNCHANGED <<ctlNever, complete, btn_stop, info_data, ramp_idx,
                   temp_interval_num, holdtime_remaining, sweep_num, Tcell,
                   Z_measurement_thread, jsondict, zthreads, stageVars, details,
                   dirs, files, temp_profile>>

\* the temperature of the sweep before taken for this sweep
RampReadTcellStale(readings) ==
    /\ Running("tcell")
    /\ NoEvent
    /\ Awake
    /\ UNCHANGED Tcell
    /\ c_pc' = "launch"
    /\ UNCHANGED <<ctlNever, complete, btn_stop, info_data, lbl_status, ramp_idx,
                   temp_interval_num, first_iter, holdtime_remaining, sweep_num,
                   seconds_elapsed, Z_measurement_thread, jsondict, zthreads,
                   stageVars, fileVars>>

\* lines 981-982: the stage temperature for the sweep's metadata
RampReadTcell(readings) ==
    /\ Running("tcell")
    /\ Call([point_calls EXCEPT !.tcell_read = TRUE])
    /\ Awake
    /\ \E t \in readings : Tcell' = t
    /\ c_pc' = "launch"
    /\ UNCHANGED <<ctlNever, complete, btn_stop, info_data, lbl_status, ramp_idx,
                   temp_interval_num, first_iter, holdtime_remaining, sweep_num,
                   seconds_elapsed, Z_measurement_thread, jsondict, zthreads,
                   stageVars, fileVars>>

(***************************************************************************)
(* solartron1260.measure_impedance: the measurement threads.  A thread is  *)
(* a record; a string the analyser returns is a sequence of tokens, the    *)
(* token "," separating its fields.                                        *)
(***************************************************************************)
RECURSIVE Join(_)
Join(fields) ==
    IF fields = <<>> THEN <<>>
    ELSE IF Len(fields) = 1 THEN fields[1]
    ELSE fields[1] \o <<",">> \o Join(Tail(fields))

Alive(z) == z.pc \notin {"done", "dead"}

\* Thread.is_alive()
is_alive(id) == id \in DOMAIN zthreads /\ Alive(zthreads[id])

AliveThreads == {id \in DOMAIN zthreads : Alive(zthreads[id])}

\* lines 121-129: a new thread object with its arguments, started
measure_impedance(r, sweep, T, interval_num) ==
    [pc |-> "start", ramp |-> r, sweep_num |-> sweep, Tcell |-> T,
     temp_interval_num |-> interval_num, i |-> 0, result |-> <<>>,
     calls |-> <<>>]

ZRamp(z) == ramps[z.ramp]

ZTempDir(z) == RampDir(ZRamp(z)) \o <<ZRamp(z).temps[z.temp_interval_num + 1]>>

\* a file name that leaves out the number of the sweep
ZFilePathFlat(z) == ZTempDir(z) \o <<1>>

ZFilePath(z) == ZTempDir(z) \o <<z.sweep_num + 1>>

SweepHeader(z) ==
    <<<<"sweep_num, date, time, Tcell, setT, ramp_direction">>,
      <<ToString(z.sweep_num), ",", "date", ",", "time", ",", ToString(z.Tcell), ",",
        ToString(ZRamp(z).end_temp), ",", IF ZRamp(z).up THEN "up" ELSE "down">>>>

\* what measure_frequency(f) may return: frequency, magnitude, argument, padding
measure_frequency(f) == {<<ToString(f), ",", "mag", ",", "arg", ",", "0", ",", "0">>}

\* analyser.read() hands back whatever the instrument sent: a reply cut
\* short after the magnitude
MalformedReads(f) == {<<ToString(f), ",", "mag">>}

\* ",".join(result.split(",")[:4])
ResultRow(result) ==
    LET fields == Split(result)
    IN  Join(SubSeq(fields, 1, Min(4, Len(fields))))

ZActive(id, pc) == ~terminated /\ id \in DOMAIN zthreads /\ zthreads[id].pc = pc

measNever == <<globalVars, clock, terminated, guiVars, start_time, stop_thread,
               complete, btn_stop, lbl_status, ctlVars, samplerVars, stageVars,
               details, temperature_data, experiment_log, temp_profile, histVars,
               ctlHist>>

\* lines 92-105: the directory of the temperature point and the sweep file
ZStart(id) ==
    /\ ZActive(id, "start")
    /\ LET z == zthreads[id]
       IN  IF RampDir(ZRamp(z)) \notin dirs
             THEN /\ zthreads' = [zthreads EXCEPT ![id].pc = "dead"]
                  /\ UNCHANGED <<dirs, files>>
             ELSE /\ dirs' = dirs \cup {ZTempDir(z)}
                  /\ files' = (ZFilePath(z) :> SweepHeader(z)) @@ files
                  /\ zthreads' = [zthreads EXCEPT ![id].pc =
                                    IF ZRamp(z).frange = <<>> THEN "done"
                                    ELSE "measure"]
    /\ UNCHANGED <<measNever, info_data, failures>>

\* a call of measure_frequency(f) returns a result, returns a malformed
\* reply when the instrument sends any, or raises; the reads that go wrong
\* are counted up to maxFailures
ZCall(id, f, maxFailures, okPc, failPc) ==
    LET z == zthreads[id]
    IN  \/ /\ \E res \in measure_frequency(f) :
                zthreads' = [zthreads EXCEPT
                               ![id].result = res,
                               ![id].calls = Append(z.calls,
                                               [f |-> f, i |-> z.i, ok |-> TRUE,
                                                res |-> res]),
                               ![id].pc = okPc]
           /\ UNCHANGED failures
        \/ /\ analyser_replies = "any"
           /\ failures < maxFailures
           /\ failures' = failures + 1
           /\ \E res \in MalformedReads(f) :
                zthreads' = [zthreads EXCEPT
                               ![id].result = res,
                               ![id].calls = Append(z.calls,
                                               [f |-> f, i |-> z.i, ok |-> TRUE,
                                                res |-> res]),
                               ![id].pc = okPc]
        \/ /\ failures < maxFailures
           /\ failures' = failures + 1
           /\ zthreads' = [zthreads EXCEPT
                             ![id].calls = Append(z.calls,
                                             [f |-> f, i |-> z.i, ok |-> FALSE,
                                              res |-> <<>>]),
                             ![id].pc = failPc]

\* every read taken at the first frequency
ZFreqFirst(z) == ZRamp(z).frange[1]

ZFreq(z) == ZRamp(z).frange[z.i + 1]

\* lines 108-112: the label, then the first read of frequency i
ZMeasure(id, maxFailures) ==
    /\ ZActive(id, "measure")
    /\ info_data' = [info_data EXCEPT !.ImpedanceScan =
                       <<ToString(ZFreq(zthreads[id])), ToString(zthreads[id].i),
                         ToString(ZRamp(zthreads[id]).numpoints)>>]
    /\ ZCall(id, ZFreq(zthreads[id]), maxFailures, "write", "probe")
    /\ UNCHANGED <<measNever, dirs, files>>

\* the read at 1 Hz taken for the read of frequency i
ZProbeOnly(id, maxFailures) ==
    /\ ZActive(id, "probe")
    /\ ZCall(id, 0, maxFailures, "write", "dead")
    /\ UNCHANGED <<measNever, info_data, dirs, files>>

\* line 113: after a failed read, a read at 1 Hz (log10 = 0)
ZProbe(id, maxFailures) ==
    /\ ZActive(id, "probe")
    /\ ZCall(id, 0, maxFailures, "retry", "dead")
    /\ UNCHANGED <<measNever, info_data, dirs, files>>

\* a failure of the second read swallowed
ZRetryLenient(id, maxFailures) ==
    /\ ZActive(id, "retry")
    /\ ZCall(id, ZFreq(zthreads[id]), maxFailures, "write", "write")
    /\ UNCHANGED <<measNever, info_data, dirs, files>>

\* line 114: the read of frequency i again
ZRetry(id, maxFailures) ==
    /\ ZActive(id, "retry")
    /\ ZCall(id, ZFreq(zthreads[id]), maxFailures, "write", "dead")
    /\ UNCHANGED <<measNever, info_data, dirs, files>>

\* the rows kept back instead of appended after each read
ZWriteLate(id) ==
    /\ ZActive(id, "write")
    /\ LET z == zthreads[id]
       IN  zthreads' = [zthreads EXCEPT
                          ![id].i = z.i + 1,
                          ![id].pc = IF z.i + 1 < Len(ZRamp(z).frange)
                                       THEN "measure" ELSE "done"]
    /\ UNCHANGED <<measNever, info_data, dirs, files, failures>>

\* lines 116-119: the row is appended; next frequency or the end of the thread
ZWrite(id) ==
    /\ ZActive(id, "write")
    /\ UNCHANGED <<measNever, info_data, dirs, failures>>
    /\ LET z == zthreads[id]
       IN  /\ zthreads' = [zthreads EXCEPT
                             ![id].i = z.i + 1,
                             ![id].pc = IF z.i + 1 < Len(ZRamp(z).frange)
                                          THEN "measure" ELSE "done"]
           /\ files' = [files EXCEPT ![ZFilePath(z)] =
                          Append(@, ResultRow(z.result))]

(***************************************************************************)
(* RunningPage.ramp_and_measure, continued: the sweep and its wait.        *)
(***************************************************************************)
\* lines 984-986: the status is logged and the measurement thread started
RampLaunchSweep ==
    /\ Running("launch")
    /\ point_events' = Append(point_events, "sweep")
    /\ point_calls' = [point_calls EXCEPT !.waited = 0, !.tcell_read = FALSE]
    /\ UNCHANGED points_done
    /\ Awake
    /\ update_status(<<"Beginning sweep", sweep_num + 1, ramp.num_sweeps_at_T>>, TRUE)
    /\ Z_measurement_thread' = Z_measurement_thread + 1
    /\ zthreads' = (Z_measurement_thread + 1 :>
                      measure_impedance(ramp_idx, sweep_num, Tcell, temp_interval_num))
                   @@ [id \in AliveThreads |-> zthreads[id]]
    /\ c_pc' = "performing"
    /\ UNCHANGED <<ctlNever, complete, btn_stop, info_data, ramp_idx,
                   temp_interval_num, first_iter, holdtime_remaining, sweep_num,
                   seconds_elapsed, Tcell, jsondict, stageVars, details, dirs, files,
                   temp_profile>>

\* lines 987-990: a second later the status is logged again
RampPerforming ==
    /\ Running("performing")
    /\ NoEvent
    /\ Sleep
    /\ update_status(<<"Performing sweep", sweep_num + 1, ramp.num_sweeps_at_T>>, TRUE)
    /\ c_pc' = "wait_Z"
    /\ UNCHANGED <<ctlNever, complete, btn_stop, info_data, ramp_idx,
                   temp_interval_num, first_iter, holdtime_remaining, sweep_num,
                   seconds_elapsed, Tcell, Z_measurement_thread, jsondict, zthreads,
                   stageVars, details, dirs, files, temp_profile>>

\* lines 991-992: poll every second while the measurement thread is alive
RampWaitSweep ==
    /\ Running("wait_Z")
    /\ NoEvent
    /\ Awake
    /\ IF is_alive(Z_measurement_thread)
         THEN UNCHANGED <<c_pc, sweep_num>>
         ELSE sweep_num' = sweep_num + 1 /\ c_pc' = "sweeps"
    /\ UNCHANGED <<ctlNever, attrVars, ramp_idx, temp_interval_num, first_iter,
                   holdtime_remaining, seconds_elapsed, Tcell, Z_measurement_thread,
                   jsondict, zthreads, stageVars, fileVars>>

\* the point left with the hold still on
RampHoldOffHeld ==
    /\ Running("hold_off")
    /\ Awake
    /\ points_done' = Append(points_done,
                              <<ramp.num, temp,
                                Cardinality({k \in DOMAIN point_events :
                                               point_events[k] = "sweep"})>>)
    /\ point_events' = <<>>
    /\ UNCHANGED <<point_calls, stage_hold>>
    /\ info_data' = MeasurementInfo(info_data, temp, ramp, temp_interval_num + 1, 0)
    /\ temp_interval_num' = temp_interval_num + 1
    /\ c_pc' = "point"
    /\ UNCHANGED <<ctlNever, complete, btn_stop, lbl_status, ramp_idx, first_iter,
                   holdtime_remaining, sweep_num, seconds_elapsed, Tcell,
                   Z_measurement_thread, jsondict, zthreads, stage_target,
                   stage_tolerance, fileVars>>

\* lines 996-1000: hold is toggled off and the dashboard updated; next point
RampHoldOff ==
    /\ Running("hold_off")
    /\ Awake
    /\ points_done' = Append(points_done,
                              <<ramp.num, temp,
                                Cardinality({k \in DOMAIN point_events :
                                               point_events[k] = "sweep"})>>)
    /\ point_events' = <<>>
    /\ point_calls' = [point_calls EXCEPT !.toggles = @ + 1]
    /\ toggle_hold
    /\ info_data' = MeasurementInfo(info_data, temp, ramp, temp_interval_num + 1, 0)
    /\ temp_interval_num' = temp_interval_num + 1
    /\ c_pc' = "point"
    /\ UNCHANGED <<ctlNever, complete, btn_stop, lbl_status, ramp_idx, first_iter,
                   holdtime_remaining, sweep_num, seconds_elapsed, Tcell,
                   Z_measurement_thread, jsondict, zthreads, stage_target,
                   stage_tolerance, fileVars>>

(***************************************************************************)
(* RunningPage.save_plot: the temperature log read back.                   *)
(***************************************************************************)
\* readlines()[1:], each line split at "," and converted with float()
LogFields(lines) == [k \in 1..(Len(lines) - 1) |-> Split(lines[k + 1])]

ParseRow(fields) == [j \in 1..Len(fields) |-> ParseFloat(fields[j])]

ReadLog(lines) == [k \in 1..(Len(lines) - 1) |-> ParseRow(Split(lines[k + 1]))]

\* a row that is not numeric, too short or not of the first row's length
RowRaises(fields, width) ==
    \/ Len(fields) # width
    \/ Len(fields) < 2
    \/ \E j \in 1..Len(fields) : ~IsFloat(fields[j])

\* np.asarray(...).astype(float) and data[:, 1] need numeric rows of one
\* length and at least one row
PlotRaises(lines) ==
    \/ Len(lines) <= 1
    \/ \E k \in 2..Len(lines) : RowRaises(Split(lines[k]), Len(Split(lines[2])))

\* time_data, temp_data as plotted into temp_profile.png
PlotData(lines) ==
    [k \in 1..(Len(lines) - 1) |->
        <<ParseFloat(Split(lines[k + 1])[1]), ParseFloat(Split(lines[k + 1])[2])>>]

(***************************************************************************)
(* RunningPage.experiment_mainloop, continued: completion.                 *)
(***************************************************************************)
\* line 897
ExperimentCompleteStatus ==
    /\ Running("complete_status")
    /\ NoEvent
    /\ Awake
    /\ update_status(<<"Experiment Complete">>, TRUE)
    /\ c_pc' = "read_details"
    /\ UNCHANGED <<ctlNever, complete, btn_stop, info_data, ramp_idx,
                   temp_interval_num, first_iter, holdtime_remaining, sweep_num,
                   seconds_elapsed, Tcell, Z_measurement_thread, jsondict, zthreads,
                   stageVars, details, dirs, files, temp_profile>>

\* the file loaded and the completion flag of the copy left as it was read
ExperimentReadDetailsUnset ==
    /\ Running("read_details")
    /\ NoEvent
    /\ Awake
    /\ IF details.empty
         THEN c_pc' = "dead" /\ UNCHANGED jsondict
         ELSE /\ jsondict' = [details EXCEPT !.has_time_elapsed = TRUE,
                                             !.time_elapsed = info_data.TimeElapsed]
              /\ c_pc' = "trunc_details"
    /\ UNCHANGED <<ctlNever, attrVars, ramp_idx, temp_interval_num, first_iter,
                   holdtime_remaining, sweep_num, seconds_elapsed, Tcell,
                   Z_measurement_thread, zthreads, stageVars, fileVars>>

\* lines 900-903: details.json is loaded (json.load raises on an empty file)
ExperimentReadDetails ==
    /\ Running("read_details")
    /\ NoEvent
    /\ Awake
    /\ IF details.empty
         THEN c_pc' = "dead" /\ UNCHANGED jsondict
         ELSE /\ jsondict' = [details EXCEPT !.complete = TRUE,
                                             !.has_time_elapsed = TRUE,
                                             !.time_elapsed = info_data.TimeElapsed]
              /\ c_pc' = "trunc_details"
    /\ UNCHANGED <<ctlNever, attrVars, ramp_idx, temp_interval_num, first_iter,
                   holdtime_remaining, sweep_num, seconds_elapsed, Tcell,
                   Z_measurement_thread, zthreads, stageVars, fileVars>>

\* line 905: open(..., "w") empties the file
ExperimentTruncDetails ==
    /\ Running("trunc_details")
    /\ NoEvent
    /\ Awake
    /\ details' = Truncated
    /\ c_pc' = "write_details"
    /\ UNCHANGED <<ctlNever, attrVars, ramp_idx, temp_interval_num, first_iter,
                   holdtime_remaining, sweep_num, seconds_elapsed, Tcell,
                   Z_measurement_thread, jsondict, zthreads, stageVars,
                   temperature_data, experiment_log, dirs, files, temp_profile>>

\* line 906
ExperimentWriteDetails ==
    /\ Running("write_details")
    /\ NoEvent
    /\ Awake
    /\ details' = jsondict
    /\ c_pc' = "stop_stage"
    /\ UNCHANGED <<ctlNever, attrVars, ramp_idx, temp_interval_num, first_iter,
                   holdtime_remaining, sweep_num, seconds_elapsed, Tcell,
                   Z_measurement_thread, jsondict, zthreads, stageVars,
                   temperature_data, experiment_log, dirs, files, temp_profile>>

\* lines 908-913
ExperimentStopStage ==
    /\ Running("stop_stage")
    /\ NoEvent
    /\ Awake
    /\ stop_heating
    /\ c_pc' = "save_plot"
    /\ UNCHANGED <<ctlNever, attrVars, ramp_idx, temp_interval_num, first_iter,
                   holdtime_remaining, sweep_num, seconds_elapsed, Tcell,
                   Z_measurement_thread, jsondict, zthreads, stage_hold,
                   stage_tolerance, fileVars>>

\* lines 915-916
ExperimentSavePlot ==
    /\ Running("save_plot")
    /\ NoEvent
    /\ Awake
    /\ UNCHANGED <<ctlNever, attrVars, ramp_idx, temp_interval_num, first_iter,
                   holdtime_remaining, sweep_num, seconds_elapsed, Tcell,
                   Z_measurement_thread, jsondict, zthreads, stageVars, details,
                   experiment_log, dirs, files>>
    /\ IF PlotRaises(temperature_data)
         THEN c_pc' = "dead" /\ UNCHANGED temp_profile
         ELSE temp_profile' = PlotData(temperature_data) /\ c_pc' = "set_complete"

\* lines 917-920
ExperimentSetComplete ==
    /\ Running("set_complete")
    /\ NoEvent
    /\ Awake
    /\ complete' = TRUE
    /\ btn_stop' = "FINISH"
    /\ c_pc' = "finished"
    /\ UNCHANGED <<ctlNever, info_data, lbl_status, ramp_idx, temp_interval_num,
                   first_iter, holdtime_remaining, sweep_num, seconds_elapsed, Tcell,
                   Z_measurement_thread, jsondict, zthreads, stageVars, fileVars>>

(***************************************************************************)
(* RunningPage._update_temperature_and_time, the sampler thread.           *)
(***************************************************************************)
samplerNever == <<globalVars, clock, terminated, guiVars, start_time, stop_thread,
                  complete, btn_stop, lbl_status, ctlVars, measVars, stageVars,
                  details, experiment_log, dirs, files, temp_profile,
                  stop_presses, stop_pressed_at, ctlHist>>

\* line 844 (and the sleep of line 855 before it): the loop ends on stop_thread
SamplerCheck(maxSamples) ==
    /\ ~terminated
    /\ t_pc = "check"
    /\ stop_thread \/ Len(samples_written) < maxSamples
    /\ t_pc' = IF stop_thread THEN "exited" ELSE "sample"
    /\ UNCHANGED <<samplerNever, info_data, temperature, seconds, temperature_data,
                   samples_written>>

\* np.floor of a time in half seconds, in whole seconds
FloorSeconds(h) == h \div 2

\* "{:.2f},{:.2f}\n".format(seconds, temperature)
SampleLine(secs, temperature_read) ==
    Fmt2f(100 * secs) \o <<",">> \o Fmt2f(temperature_read)

\* lines 845-853, one pass of the loop body: the temperature is read and
\* rounded, the time since self.start_time taken (AttributeError when the GUI
\* thread has not assigned it yet), the labels set and the sample appended
SamplerSample(readings) ==
    /\ ~terminated
    /\ t_pc = "sample"
    /\ \E t \in readings :
         /\ temperature' = Round2(t)
         /\ IF start_time = <<>>
              THEN /\ t_pc' = "crashed"
                   /\ UNCHANGED <<seconds, info_data, temperature_data,
                                  samples_written>>
              ELSE /\ seconds' = FloorSeconds(clock - start_time[1])
                   /\ info_data' =
                        [info_data EXCEPT
                           !.Temperature = <<ToString(Round2(t))>>,
                           !.TimeElapsed = IF ~complete
                                             THEN TimedeltaStr(
                                                    FloorSeconds(clock - start_time[1]))
                                             ELSE @]
                   /\ temperature_data' =
                        Append(temperature_data,
                               SampleLine(FloorSeconds(clock - start_time[1]),
                                          Round2(t)))
                   /\ samples_written' =
                        Append(samples_written,
                               <<FloorSeconds(clock - start_time[1]), Round2(t)>>)
                   /\ t_pc' = "check"
    /\ UNCHANGED samplerNever

\* time passes; the clock is read at lines 625 and 846 only, so that it is
\* enough to let it advance right before those reads
Tick(maxClock) ==
    /\ ~terminated
    /\ clock < maxClock
    /\ gui_pc = "start_time" \/ t_pc = "sample"
    /\ clock' = clock + 1
    /\ UNCHANGED <<globalVars, terminated, guiVars, attrVars, ctlVars, samplerVars,
                   measVars, stageVars, fileVars, histVars, ctlHist>>

(***************************************************************************)
(* The GUI thread: RunningPage.__init__, then the button handlers.         *)
(***************************************************************************)
Gui(pc) == ~terminated /\ gui_pc = pc

guiNever == <<globalVars, clock, ramp_idx, temp_interval_num, first_iter,
              holdtime_remaining, sweep_num, seconds_elapsed, Tcell,
              Z_measurement_thread, jsondict, samplerVars, measVars, stage_hold,
              stage_tolerance, dirs, files, samples_written, complete, btn_stop,
              info_data, passed_poll, point_events, points_done, point_calls>>

LogHeader ==
    <<"s", "e", "c", "o", "n", "d", "s", ",", " ", "t", "e", "m", "p", "e", "r", "a",
      "t", "u", "r", "e">>

\* lines 799-802, setup_plot: the header of temperature_data.txt
GuiSetupPlot ==
    /\ UNCHANGED c_sleeps
    /\ Gui("setup_plot")
    /\ temperature_data' = Append(temperature_data, LogHeader)
    /\ gui_pc' = "start_thread"
    /\ UNCHANGED <<guiNever, terminated, json_dict, start_time, stop_thread,
                   lbl_status, c_pc, stage_target, details, experiment_log,
                   temp_profile, stop_presses, stop_pressed_at>>

\* lines 619-622
GuiStartThread ==
    /\ UNCHANGED c_sleeps
    /\ Gui("start_thread")
    /\ c_pc' = "init"
    /\ gui_pc' = "start_time"
    /\ UNCHANGED <<guiNever, terminated, json_dict, start_time, stop_thread,
                   lbl_status, stage_target, details, temperature_data,
                   experiment_log, temp_profile, stop_presses, stop_pressed_at>>

\* lines 624-625
GuiStartTime ==
    /\ UNCHANGED c_sleeps
    /\ Gui("start_time")
    /\ start_time' = <<clock>>
    /\ gui_pc' = "read_datetime"
    /\ UNCHANGED <<guiNever, terminated, json_dict, stop_thread, lbl_status, c_pc,
                   stage_target, details, temperature_data, experiment_log,
                   temp_profile, stop_presses, stop_pressed_at>>

\* lines 626-627: json.load raises on an empty file and the constructor fails
GuiReadDatetime ==
    /\ UNCHANGED c_sleeps
    /\ Gui("read_datetime")
    /\ gui_pc' = IF details.empty THEN "ctor_failed" ELSE "mainloop"
    /\ UNCHANGED <<guiNever, terminated, json_dict, start_time, stop_thread,
                   lbl_status, c_pc, stage_target, details, temperature_data,
                   experiment_log, temp_profile, stop_presses, stop_pressed_at>>

(***************************************************************************)
(* RunningPage.stop_button_func, called by the STOP button and, through    *)
(* on_closing, by closing the window.  An exception in a handler ends the  *)
(* handler and the GUI goes on.                                            *)
(***************************************************************************)
handlerNever == <<guiNever, start_time, c_pc>>

\* the button is pressed, or the window closed and the question confirmed;
\* line 635
StopPressed(maxPresses) ==
    /\ Gui("mainloop")
    /\ stop_presses < maxPresses
    /\ stop_heating
    /\ gui_pc' = "stop_read"
    /\ stop_presses' = stop_presses + 1
    /\ stop_pressed_at' = IF c_pc = "dwell" /\ HoldtimeLeft THEN "dwell" ELSE "other"
    /\ c_sleeps' = 0
    /\ UNCHANGED <<handlerNever, terminated, json_dict, stop_thread, lbl_status,
                   details, temperature_data, experiment_log, temp_profile>>

\* lines 637-639
StopReadDetails ==
    /\ Gui("stop_read")
    /\ IF details.empty
         THEN /\ gui_pc' = "mainloop"
              /\ c_sleeps' = 0
              /\ stop_pressed_at' = "none"
              /\ UNCHANGED json_dict
         ELSE /\ json_dict' = [details EXCEPT !.has_time_elapsed = TRUE,
                                             !.time_elapsed = info_data.TimeElapsed]
              /\ gui_pc' = "stop_trunc"
              /\ UNCHANGED <<c_sleeps, stop_pressed_at>>
    /\ UNCHANGED <<handlerNever, terminated, stop_thread, lbl_status, stage_target,
                   details, temperature_data, experiment_log, temp_profile,
                   stop_presses>>

\* line 641: open(..., "w") empties the file
StopTruncDetails ==
    /\ UNCHANGED c_sleeps
    /\ Gui("stop_trunc")
    /\ details' = Truncated
    /\ gui_pc' = "stop_write"
    /\ UNCHANGED <<handlerNever, terminated, json_dict, stop_thread, lbl_status,
                   stage_target, temperature_data, experiment_log, temp_profile,
                   stop_presses, stop_pressed_at>>

\* line 642
StopWriteDetails ==
    /\ UNCHANGED c_sleeps
    /\ Gui("stop_write")
    /\ details' = json_dict
    /\ gui_pc' = "stop_flag"
    /\ UNCHANGED <<handlerNever, terminated, json_dict, stop_thread, lbl_status,
                   stage_target, temperature_data, experiment_log, temp_profile,
                   stop_presses, stop_pressed_at>>

\* lines 644-651
StopSetFlag ==
    /\ UNCHANGED c_sleeps
    /\ Gui("stop_flag")
    /\ update_status(<<"Stop button used / user interrupt.">>, TRUE)
    /\ stop_thread' = TRUE
    /\ gui_pc' = "stop_plot"
    /\ UNCHANGED <<handlerNever, terminated, json_dict, stage_target, details,
                   temperature_data, temp_profile, stop_presses, stop_pressed_at>>

\* lines 652-654
StopSavePlot ==
    /\ Gui("stop_plot")
    /\ IF PlotRaises(temperature_data)
         THEN /\ gui_pc' = "mainloop"
              /\ c_sleeps' = 0
              /\ stop_pressed_at' = "none"
              /\ UNCHANGED temp_profile
         ELSE /\ temp_profile' = PlotData(temperature_data)
              /\ gui_pc' = "stop_exit"
              /\ UNCHANGED <<c_sleeps, stop_pressed_at>>
    /\ UNCHANGED <<handlerNever, terminated, json_dict, stop_thread, lbl_status,
                   stage_target, details, temperature_data, experiment_log,
                   stop_presses>>

\* lines 656-658: the process exits and its daemon threads with it
StopExit ==
    /\ UNCHANGED c_sleeps
    /\ Gui("stop_exit")
    /\ terminated' = TRUE
    /\ gui_pc' = "exited"
    /\ UNCHANGED <<handlerNever, json_dict, stop_thread, lbl_status, stage_target,
                   details, temperature_data, experiment_log, temp_profile,
                   stop_presses, stop_pressed_at>>

(***************************************************************************)
(* RunningPage.finish_button_func, the button after line 920.              *)
(***************************************************************************)
\* lines 664-665
FinishPressed ==
    /\ UNCHANGED c_sleeps
    /\ Gui("mainloop")
    /\ btn_stop = "FINISH"
    /\ update_status(<<"Program Ended">>, TRUE)
    /\ stop_thread' = TRUE
    /\ gui_pc' = "finish_exit"
    /\ UNCHANGED <<handlerNever, terminated, json_dict, stage_target, details,
                   temperature_data, temp_profile, stop_presses, stop_pressed_at>>

\* lines 666-670
FinishExit ==
    /\ UNCHANGED c_sleeps
    /\ Gui("finish_exit")
    /\ terminated' = TRUE
    /\ gui_pc' = "exited"
    /\ UNCHANGED <<handlerNever, json_dict, stop_thread, lbl_status, stage_target,
                   details, temperature_data, experiment_log, temp_profile,
                   stop_presses, stop_pressed_at>>

(***************************************************************************)
(* The running experiment: all threads interleaved.                        *)
(***************************************************************************)
GuiStep ==
    \/ GuiSetupPlot \/ GuiStartThread \/ GuiStartTime \/ GuiReadDatetime
    \/ StopPressed(MaxStopPresses) \/ StopReadDetails \/ StopTruncDetails
    \/ StopWriteDetails \/ StopSetFlag \/ StopSavePlot \/ StopExit
    \/ FinishPressed \/ FinishExit

ExperimentStep ==
    \/ ExperimentInit \/ ExperimentLogStart \/ ExperimentNextRamp
    \/ RampNextPoint \/ RampStartHeating \/ RampWaitHold \/ RampCheckReached
    \/ RampHoldOn \/ RampSettle \/ RampDwell \/ RampNextSweep \/ RampSweepDelay
    \/ RampReadTcell(SampleTemperatures) \/ RampLaunchSweep \/ RampPerforming
    \/ RampWaitSweep \/ RampHoldOff
    \/ ExperimentCompleteStatus \/ ExperimentReadDetails \/ ExperimentTruncDetails
    \/ ExperimentWriteDetails \/ ExperimentStopStage \/ ExperimentSavePlot
    \/ ExperimentSetComplete

SamplerStep ==
    \/ SamplerCheck(MaxSamples) \/ SamplerSample(SampleTemperatures)

MeasurementStep ==
    \E id \in DOMAIN zthreads :
        \/ ZStart(id) \/ ZMeasure(id, MaxFailures) \/ ZProbe(id, MaxFailures)
        \/ ZRetry(id, MaxFailures) \/ ZWrite(id)

Next == GuiStep \/ ExperimentStep \/ SamplerStep \/ MeasurementStep \/ Tick(MaxClock)

Spec == Init /\ [][Next]_vars

(***************************************************************************)
(* Properties of the running experiment.                                   *)
(***************************************************************************)
RECURSIVE Ticks(_)
Ticks(n) == IF n = 0 THEN <<>> ELSE <<"tick">> \o Ticks(n - 1)

\* What a temperature point has behind it when its hold time is over: the
\* Reaching check passed, the Settling loop of a stage that has one left, and
\* min_holdtime seconds of hold
PointReady ==
    <<"reached">> \o (IF stage_kind = "virtual" THEN <<>> ELSE <<"settled">>)
                  \o Ticks(ramp.min_holdtime)

ThermalPcs == {"heat", "wait_hold", "check", "hold_on", "settle", "dwell"}

C2_OneSweepBesideSampler ==
    /\ Cardinality(AliveThreads) <= 1
    /\ (AliveThreads # {} /\ ~terminated /\ ~stop_thread) =>
          t_pc \in {"check", "sample"}

\* C3: when the process has exited after a stop pressed during the hold time
\* of a temperature point, details.json holds complete = false and a
\* non-empty "time_elapsed"
C3_CancelMidHoldPersisted ==
    (terminated /\ stop_pressed_at = "dwell") =>
        /\ ~details.empty
        /\ details.complete = FALSE
        /\ details.has_time_elapsed
        /\ details.time_elapsed # <<>>

\* C4: once stop_thread is set and the experiment thread has come out of a
\* one-second sleep after that, the experiment thread toggles no hold, starts
\* no heating and launches no measurement thread
C4_NoCommandAfterStop ==
    [][passed_poll =>
          /\ stage_hold' = stage_hold
          /\ stage_target' # stage_target => stage_target' = <<>>
          /\ Z_measurement_thread' = Z_measurement_thread]_vars

RECURSIVE PointsOf(_, _)
PointsOf(r, k) ==
    IF k > Len(r.temps) THEN <<>>
    ELSE <<<<r.num, r.temps[k], r.num_sweeps_at_T>>>> \o PointsOf(r, k + 1)

RECURSIVE PlannedPoints(_)
PlannedPoints(n) ==
    IF n > Len(ramps) THEN <<>> ELSE PointsOf(ramps[n], 1) \o PlannedPoints(n + 1)

IsPrefix(a, b) == Len(a) <= Len(b) /\ SubSeq(b, 1, Len(a)) = a

C9_SamplerRunsUntilStop ==
    (c_pc \notin {"not_started", "init"} /\ ~terminated /\ ~stop_thread) =>
        t_pc \in {"check", "sample"}

(***************************************************************************)
(* One measurement thread on its own: a sweep of MaxSweepPoints            *)
(* frequencies launched at a temperature point, the experiment thread      *)
(* waiting for it.                                                         *)
(***************************************************************************)
SweepRamps ==
    <<Ramp(1, 30000, 40000, 5000, 10, 1, 50000, 1000, 1000 * (1 + MaxSweepPoints),
           1, 2, 5, "y")>>

\* the experiment thread has launched a sweep at the first point of the ramp
\* and waits for it (line 990)
SweepLaunched ==
    /\ ramps = SweepRamps
    /\ stage_kind = "virtual"
    /\ NameChosen
    /\ sweep_num \in {0, 1}
    /\ Tcell \in Temperatures
    /\ clock = 0
    /\ terminated = FALSE
    /\ gui_pc = "mainloop"
    /\ json_dict = None
    /\ start_time = <<0>>
    /\ stop_thread = FALSE
    /\ complete = FALSE
    /\ btn_stop = "STOP"
    /\ lbl_status = <<"Performing sweep", sweep_num + 1, 2>>
    /\ c_pc = "wait_Z"
    /\ ramp_idx = 1
    /\ temp_interval_num = 0
    /\ first_iter = FALSE
    /\ holdtime_remaining = 0
    /\ seconds_elapsed = 0
    /\ info_data = MeasurementInfo(InitInfoData, SweepRamps[1].temps[1], SweepRamps[1],
                                   1, sweep_num + 1)
    /\ Z_measurement_thread = 1
    /\ jsondict = None
    /\ t_pc = "check"
    /\ temperature = None
    /\ seconds = None
    /\ zthreads = (1 :> measure_impedance(1, sweep_num, Tcell, 0))
    /\ failures = 0
    /\ stage_target = <<SweepRamps[1].temps[1]>>
    /\ stage_hold = TRUE
    /\ stage_tolerance = None
    /\ details = InitDetails
    /\ temperature_data = <<LogHeader>>
    /\ experiment_log = <<>>
    /\ dirs = {RampDir(SweepRamps[1])}
    /\ files = <<>>
    /\ temp_profile = <<>>
    /\ samples_written = <<>>
    /\ stop_presses = 0
    /\ stop_pressed_at = "none"
    /\ c_sleeps = 0
    /\ passed_poll = FALSE
    /\ point_events = <<"reached", "tick", "sweep">>
    /\ points_done = <<>>
    /\ point_calls = [NoCalls EXCEPT !.toggles = 1, !.heated = <<<<1, SweepRamps[1].temps[1]>>>>]

InitSweep ==
    /\ SweepLaunched
    /\ analyser_replies = "any"
    /\ InitRampsSaved

SweepStep ==
    \E id \in DOMAIN zthreads :
        \/ ZStart(id) \/ ZMeasure(id, MaxSweepFailures) \/ ZProbe(id, MaxSweepFailures)
        \/ ZRetry(id, MaxSweepFailures) \/ ZWrite(id)

SpecSweep == InitSweep /\ [][SweepStep]_vars

\* the result rows of a thread's sweep file, after its two header lines
Rows(z) ==
    IF ZFilePath(z) \in DOMAIN files
      THEN SubSeq(files[ZFilePath(z)], 3, Len(files[ZFilePath(z)]))
      ELSE <<>>

\* the frequency a row is of: its first field
RowFreq(row) == Split(row)[1]

NoFailure(z) == \A k \in DOMAIN z.calls : z.calls[k].ok

\* C5: a measurement thread none of whose reads has failed does not die, has
\* read every frequency once and written one row per frequency read so far,
\* the k-th row being of the k-th frequency of the list (highest first), and
\* it is over exactly when the file holds as many rows as the list has
\* frequencies
C5_AllRowsInOrder ==
    \A id \in DOMAIN zthreads :
        LET z == zthreads[id]
            frange == ZRamp(z).frange
        IN  (NoFailure(z) /\ z.pc # "start") =>
              /\ z.pc # "dead"
              /\ Len(files[ZFilePath(z)]) = 2 + Len(Rows(z))
              /\ Len(Rows(z)) = z.i
              /\ Len(z.calls) = z.i + (IF z.pc = "write" THEN 1 ELSE 0)
              /\ \A k \in 1..Len(Rows(z)) :
                   /\ RowFreq(Rows(z)[k]) = <<ToString(frange[k])>>
                   /\ k > 1 => frange[k] < frange[k - 1]
              /\ (z.pc = "done") = (Len(Rows(z)) = Len(frange))

\* a sweep of MaxSweepPoints frequencies is over without a failed read
C5_Witness ==
    \E id \in DOMAIN zthreads :
        /\ zthreads[id].pc = "done"
        /\ NoFailure(zthreads[id])
        /\ Len(Rows(zthreads[id])) = MaxSweepPoints
        /\ MaxSweepPoints > 1

\* the reads taken for the frequency of index i
CallsAt(z, i) == SelectSeq(z.calls, LAMBDA c : c.i = i)

\* the thread is through with the reads of index i
ReadsOver(z, i) == z.i > i \/ (z.i = i /\ z.pc \in {"write", "done", "dead"})

\* C6 as stated: whenever the first read of a frequency has failed, one read
\* at 1 Hz is taken and then the frequency read again exactly once
C6_ProbeThenRetryAlways ==
    \A id \in DOMAIN zthreads :
        LET z == zthreads[id]
        IN  \A i \in 0..(Len(ZRamp(z).frange) - 1) :
              LET cs == CallsAt(z, i)
              IN  (cs # <<>> /\ ~cs[1].ok /\ ReadsOver(z, i)) =>
                     /\ Len(cs) = 3
                     /\ cs[2].f = 0
                     /\ cs[3].f = ZRamp(z).frange[i + 1]

\* C6: the reads taken for a frequency f are one read of f; after a failure
\* of it one read at 1 Hz; and after that has returned one more read of f, so
\* that f is read at most twice and 1 Hz at most once.  When the read at
\* 1 Hz fails the thread dies and f is not read again.  When the second read
\* of f returns the sweep goes on and its result is the row of f, in the
\* place of f
C6_OneRetryPerFrequency ==
    \A id \in DOMAIN zthreads :
        LET z == zthreads[id]
            frange == ZRamp(z).frange
        IN  \A i \in 0..(Len(frange) - 1) :
              LET cs == CallsAt(z, i)
              IN  /\ Len(cs) <= 3
                  /\ Cardinality({k \in DOMAIN cs : cs[k].f = frange[i + 1]}) <= 2
                  /\ Cardinality({k \in DOMAIN cs : cs[k].f = 0}) <= 1
                  /\ Len(cs) >= 1 => cs[1].f = frange[i + 1]
                  /\ Len(cs) >= 2 => ~cs[1].ok /\ cs[2].f = 0
                  /\ Len(cs) = 3 => cs[2].ok /\ cs[3].f = frange[i + 1]
                  /\ (cs # <<>> /\ ~cs[1].ok /\ ReadsOver(z, i)) =>
                       /\ Len(cs) >= 2
                       /\ cs[2].ok => Len(cs) = 3
                       /\ ~cs[2].ok => Len(cs) = 2 /\ z.pc = "dead" /\ z.i = i
                  /\ (Len(cs) = 3 /\ cs[3].ok) =>
                       /\ ~(z.pc = "dead" /\ z.i = i)
                       /\ z.i > i =>
                            /\ RowFreq(Rows(z)[i + 1]) = <<ToString(frange[i + 1])>>
                            /\ Len(Rows(z)) >= i + 1

\* a first read has failed, the read at 1 Hz and the second read have
\* returned, and the sweep has gone on to its end
C6_Witness ==
    \E id \in DOMAIN zthreads :
        LET z == zthreads[id]
        IN  /\ z.pc = "done"
            /\ \E i \in 0..(Len(ZRamp(z).frange) - 2) :
                 /\ Len(CallsAt(z, i)) = 3
                 /\ CallsAt(z, i)[3].ok
                 /\ Len(Rows(z)) = Len(ZRamp(z).frange)

\* C7: when the second read of a frequency has failed the thread is dead at
\* that frequency: the file holds the rows of the frequencies before it only
\* and no read has been taken for a later frequency
C7_SecondFailureAborts ==
    \A id \in DOMAIN zthreads :
        LET z == zthreads[id]
        IN  \A i \in 0..(Len(ZRamp(z).frange) - 1) :
              LET cs == CallsAt(z, i)
              IN  (Len(cs) = 3 /\ ~cs[3].ok) =>
                     /\ z.pc = "dead"
                     /\ z.i = i
                     /\ Len(Rows(z)) = i
                     /\ \A k \in DOMAIN z.calls : z.calls[k].i <= i
                     /\ z.calls[Len(z.calls)] = cs[3]

\* the second read of the second frequency has failed, after a row written
C7_Witness ==
    \E id \in DOMAIN zthreads :
        LET z == zthreads[id]
        IN  /\ z.pc = "dead"
            /\ z.i = 1
            /\ Len(CallsAt(z, 1)) = 3
            /\ ~CallsAt(z, 1)[3].ok
            /\ Len(Rows(z)) = 1

(***************************************************************************)
(* The sampler thread on its own, after the constructor of the running     *)
(* page: the temperature log written and read back.                        *)
(***************************************************************************)
InitLog ==
    /\ \E e \in Experiments : ramps = e.ramps /\ stage_kind = e.stage
    /\ analyser_replies = "well_formed"
    /\ NameChosen
    /\ InitRampsSaved
    /\ clock = 0
    /\ terminated = FALSE
    /\ gui_pc = "mainloop"
    /\ json_dict = None
    /\ start_time = <<0>>
    /\ stop_thread = FALSE
    /\ complete = FALSE
    /\ btn_stop = "STOP"
    /\ info_data = InitInfoData
    /\ lbl_status = <<"Experiment is Starting.">>
    /\ c_pc = "log_start"
    /\ ramp_idx = 1
    /\ temp_interval_num = 0
    /\ first_iter = TRUE
    /\ holdtime_remaining = 0
    /\ sweep_num = 0
    /\ seconds_elapsed = 0
    /\ Tcell = None
    /\ Z_measurement_thread = 0
    /\ jsondict = None
    /\ t_pc = "check"
    /\ temperature = None
    /\ seconds = None
    /\ zthreads = <<>>
    /\ failures = 0
    /\ stage_target = <<>>
    /\ stage_hold = FALSE
    /\ stage_tolerance = None
    /\ details = InitDetails
    /\ temperature_data = <<LogHeader>>
    /\ experiment_log = <<>>
    /\ dirs = {}
    /\ files = <<>>
    /\ temp_profile = <<>>
    /\ samples_written = <<>>
    /\ stop_presses = 0
    /\ stop_pressed_at = "none"
    /\ c_sleeps = 0
    /\ passed_poll = FALSE
    /\ point_events = <<>>
    /\ points_done = <<>>
    /\ point_calls = NoCalls

LogStep ==
    \/ SamplerCheck(MaxLogSamples)
    \/ SamplerSample(LogTemperatures)
    \/ Tick(MaxLogClock)

SpecLog == InitLog /\ [][LogStep]_vars

\* C10: the lines of temperature_data.txt after the header, read back as
\* save_plot reads them, are as many rows as samples have been written, the
\* k-th row being the seconds and the temperature of the k-th sample, and the
\* seconds do not decrease from a row to the next
C10_LogRoundTrip ==
    LET data == ReadLog(temperature_data)
    IN  /\ Len(temperature_data) = 1 + Len(samples_written)
        /\ Len(data) = Len(samples_written)
        /\ \A k \in 1..Len(data) :
             /\ Len(data[k]) = 2
             /\ data[k][1] = 100 * samples_written[k][1]
             /\ data[k][2] = samples_written[k][2]
        /\ \A k \in 1..(Len(data) - 1) : data[k][1] <= data[k + 1][1]
        /\ samples_written # <<>> =>
             /\ ~PlotRaises(temperature_data)
             /\ PlotData(temperature_data) =
                  [k \in 1..Len(data) |-> <<data[k][1], data[k][2]>>]

\* MaxLogSamples samples written, one of them below zero, one with a zero
\* first decimal, at seconds that differ
C10_Witness ==
    /\ Len(samples_written) = MaxLogSamples
    /\ MaxLogSamples >= 2
    /\ \E k \in DOMAIN samples_written : samples_written[k][2] < 0
    /\ \E k \in DOMAIN samples_written : samples_written[k][2] % 100 \in 1..9
    /\ samples_written[1][1] < samples_written[Len(samples_written)][1]


(***************************************************************************)
(* RampInputPage: the page on which ramps are entered.  The stage is the   *)
(* virtual stage, the analyser any of the three check_hardware_config can  *)
(* select.  Voltages are in thousandths of a mV, the frequency limits are  *)
(* log10 in thousandths (1e-5 Hz is -5000, 3.2e7 Hz is 7505, 7e6 Hz is     *)
(* 6845); min_V = 1e-6 lets through exactly the voltages of at least one   *)
(* thousandth among those the entries can hold here.                       *)
(***************************************************************************)
\* virtual.stage.get_value_limits
StageLimits ==
    [min_temp |-> 0, max_temp |-> 500000, min_rate |-> 1000, max_rate |-> 30000]

\* The attributes each analyser's __init__ assigns
AnalyserAttrs(kind) ==
    IF kind = "virtual"
      THEN [min_frequency |-> -5000, max_frequency |-> 7505,
            min_V |-> 1000, max_V |-> 100000]
    ELSE IF kind = "1260"
      THEN [min_frequency |-> -5000, max_frequency |-> 7505,
            min_V |-> 1, max_V |-> 1000000]
    ELSE [minimum_frequency |-> -5000, maximum_frequency |-> 6845,
          min_V |-> 1, max_V |-> 10000000]

\* The attribute reads of the page: an absent attribute raises AttributeError
LimitsRead == {"min_V", "max_V", "min_frequency", "max_frequency"}

\* Ramp(...) raises inside the try of input_ramp: ZeroDivisionError at the
\* division by interval, ValueError of np.logspace for a negative num
RampRaises(e) ==
    \/ e.interval = 0
    \/ RampNumpoints(e.fmin, e.fmax, e.ppd) < 0

\* sanity_check without the test that the interval divides the span
sanity_checkNoDivision(r, analyser) ==
    IF ~(StageLimits.min_temp <= r.start_temp /\ r.start_temp <= StageLimits.max_temp)
      THEN "Start Temp"
    ELSE IF ~(StageLimits.min_temp <= r.end_temp /\ r.end_temp <= StageLimits.max_temp)
      THEN "End Temp"
    ELSE IF ~(StageLimits.min_rate <= r.rate /\ r.rate <= StageLimits.max_rate)
      THEN "Rate"
    ELSE IF Abs(r.interval) < 1 THEN "Interval"
    ELSE IF ~(1 <= r.min_holdtime /\ r.min_holdtime <= 30000000)
      THEN "Minimum Holdtime"
    ELSE IF ~({"min_V", "max_V"} \subseteq DOMAIN analyser) THEN "AttributeError"
    ELSE IF ~(analyser.min_V <= r.voltage /\ r.voltage <= analyser.max_V)
      THEN "Voltage"
    ELSE IF r.fmin >= r.fmax THEN "fmin >= fmax"
    ELSE IF "min_frequency" \notin DOMAIN analyser THEN "AttributeError"
    ELSE IF r.fmin < analyser.min_frequency THEN "Minimum Frequency"
    ELSE IF "max_frequency" \notin DOMAIN analyser THEN "AttributeError"
    ELSE IF r.fmax > analyser.max_frequency THEN "Maximum Frequency"
    ELSE IF r.ppd < 1 THEN "PPD"
    ELSE IF r.num_sweeps_at_T < 0 THEN "#Sweeps"
    ELSE IF r.sweep_delay < 5 THEN "Sweep Delay"
    ELSE IF r.scan_at_first_T \notin {"True", "False"} THEN "Scan @ first T y/n"
    ELSE None

\* RampInputPage.sanity_check: the fault name, None when the ramp is accepted,
\* AttributeError when the analyser lacks a limit the check reads
sanity_check(r, analyser) ==
    IF ~(StageLimits.min_temp <= r.start_temp /\ r.start_temp <= StageLimits.max_temp)
      THEN "Start Temp"
    ELSE IF ~(StageLimits.min_temp <= r.end_temp /\ r.end_temp <= StageLimits.max_temp)
      THEN "End Temp"
    ELSE IF ~(StageLimits.min_rate <= r.rate /\ r.rate <= StageLimits.max_rate)
      THEN "Rate"
    ELSE IF (Abs(r.end_temp - r.start_temp) % (Abs(r.interval) * 1000)) # 0
      THEN "(T2 - T1) / dT =/= 0"
    ELSE IF Abs(r.interval) < 1 THEN "Interval"
    ELSE IF ~(1 <= r.min_holdtime /\ r.min_holdtime <= 30000000)
      THEN "Minimum Holdtime"
    ELSE IF ~({"min_V", "max_V"} \subseteq DOMAIN analyser) THEN "AttributeError"
    ELSE IF ~(analyser.min_V <= r.voltage /\ r.voltage <= analyser.max_V)
      THEN "Voltage"
    ELSE IF r.fmin >= r.fmax THEN "fmin >= fmax"
    ELSE IF "min_frequency" \notin DOMAIN analyser THEN "AttributeError"
    ELSE IF r.fmin < analyser.min_frequency THEN "Minimum Frequency"
    ELSE IF "max_frequency" \notin DOMAIN analyser THEN "AttributeError"
    ELSE IF r.fmax > analyser.max_frequency THEN "Maximum Frequency"
    ELSE IF r.ppd < 1 THEN "PPD"
    ELSE IF r.num_sweeps_at_T < 0 THEN "#Sweeps"
    ELSE IF r.sweep_delay < 5 THEN "Sweep Delay"
    ELSE IF r.scan_at_first_T \notin {"True", "False"} THEN "Scan @ first T y/n"
    ELSE None


\* The default entries of the page (lines 246-259), with the shortest hold,
\* one sweep and the shortest delay
DefaultEntry ==
    [start_temp |-> 30000, end_temp |-> 60000, rate |-> 5000, interval |-> 10,
     min_holdtime |-> 1, voltage |-> 50000, fmin |-> -1000, fmax |-> 7000,
     ppd |-> 10, num_sweeps |-> 1, sweep_delay |-> 5, scan_at_first_T |-> "y"]

\* What the operator may type: the temperature fields varied together (with
\* one point per decade), then values out of range, then the frequency
\* fields, then each remaining field
PlanEntries ==
    {[DefaultEntry EXCEPT !.start_temp = a, !.end_temp = b, !.interval = i,
                          !.rate = r, !.ppd = 1] :
        a \in {30000, 60000, 125}, b \in {30000, 60000, 10125, 55000},
        i \in {10, -10, 0}, r \in {5000, 40000}}
    \cup {[DefaultEntry EXCEPT !.start_temp = a, !.end_temp = b,
                               !.scan_at_first_T = "n", !.ppd = 1] :
        a \in {30000, 60000}, b \in {30000, 60000}}
    \cup {[DefaultEntry EXCEPT !.end_temp = b, !.rate = r, !.scan_at_first_T = y] :
        b \in {60000, 501000}, r \in {5000, 0}, y \in {"y", "x"}}
    \cup {[DefaultEntry EXCEPT !.fmin = f[1], !.fmax = f[2], !.ppd = d] :
        f \in {<<-1000, 7000>>, <<0, 1000>>, <<0, 699>>, <<1000, 0>>, <<1000, 800>>,
               <<-6000, 1000>>, <<0, 8000>>, <<0, 7000>>},
        d \in {-1, 0, 1, 10}}
    \cup {[DefaultEntry EXCEPT !.voltage = v, !.min_holdtime = h,
                               !.num_sweeps = n, !.sweep_delay = d] :
        v \in {50000, 500, 0}, h \in {1, 0}, n \in {1, 0, -1}, d \in {5, 4}}

\* RampInputPage.__init__: the list is emptied and the limits are displayed
PageInit ==
    /\ page_pc = "init"
    /\ ramps' = <<>>
    /\ ramp_count' = 0
    /\ page_pc' = IF LimitsRead \subseteq DOMAIN AnalyserAttrs(analyser_kind)
                    THEN "form" ELSE "ctor_failed"
    /\ UNCHANGED <<stage_kind, analyser_kind, analyser_replies, nameVars, fault, entry, clock,
                   terminated,
                   guiVars, attrVars, ctlVars, samplerVars, measVars, stageVars,
                   fileVars, histVars, ctlHist>>

\* RampInputPage.input_ramp with the entries holding e
input_ramp(e, maxRamps) ==
    /\ page_pc = "form"
    /\ Len(ramps) < maxRamps
    /\ entry' = <<e>>
    /\ IF RampRaises(e)
         THEN fault' = "Input(s) invalid" /\ UNCHANGED <<ramps, ramp_count>>
         ELSE LET r == Ramp(ramp_count + 1, e.start_temp, e.end_temp, e.rate,
                            e.interval, e.min_holdtime, e.voltage, e.fmin, e.fmax,
                            e.ppd, e.num_sweeps, e.sweep_delay, e.scan_at_first_T)
                  verdict == sanity_check(r, AnalyserAttrs(analyser_kind))
              IN  /\ fault' = verdict
                  /\ IF verdict = None
                       THEN ramps' = Append(ramps, r) /\ ramp_count' = ramp_count + 1
                       ELSE UNCHANGED <<ramps, ramp_count>>
    /\ UNCHANGED <<stage_kind, analyser_kind, analyser_replies, nameVars, page_pc, clock,
                   terminated,
                   guiVars, attrVars, ctlVars, samplerVars, measVars, stageVars,
                   fileVars, histVars, ctlHist>>

InitPlan ==
    /\ ramps = <<>>
    /\ stage_kind = "virtual"
    /\ analyser_kind \in {"virtual", "1260", "SP_200"}
    /\ ramp_count = 0
    /\ page_pc = "init"
    /\ fault = None
    /\ entry = <<>>
    /\ InitCommon

PlanStep == PageInit \/ \E e \in PlanEntries : input_ramp(e, MaxRamps)

SpecPlan == InitPlan /\ [][PlanStep]_vars


(***************************************************************************)
(* Claims about ramp planning, checked under SpecPlan.                     *)
(***************************************************************************)
\* C14: every ramp in the ramp list has the temperature points
\* start_temp + k * interval for k = 0..num_intervals, the interval signed
\* toward end_temp and num_intervals = floor(|end_temp - start_temp| /
\* |interval|), so that the last point is end_temp.
C14_PointsFromStartToEnd ==
    \A i \in DOMAIN ramps :
        LET r == ramps[i]
            n == Abs(r.end_temp - r.start_temp) \div (Abs(r.interval) * 1000)
            step == IF r.end_temp >= r.start_temp
                      THEN Abs(r.interval) ELSE -Abs(r.interval)
        IN  /\ r.temps = [k \in 1..(n + 1) |-> r.start_temp + (k - 1) * step * 1000]
            /\ r.temps[Len(r.temps)] = r.end_temp

\* span is a whole multiple of interval degrees
IsMultiple(span, interval) ==
    \E k \in -(Abs(span) \div 1000)..(Abs(span) \div 1000) : span = k * interval * 1000

\* C15: an entered ramp whose span end_temp - start_temp is not a whole
\* multiple of its interval is rejected with a message and the ramp list is
\* left as it was.
C15_NonMultipleRejected ==
    [][(entry' # <<>> /\ ~IsMultiple(entry'[1].end_temp - entry'[1].start_temp,
                                     entry'[1].interval))
        => (ramps' = ramps /\ ramp_count' = ramp_count /\ fault' # None)]_vars

C15_Witness ==
    /\ entry # <<>>
    /\ entry[1].interval = 10
    /\ entry[1].end_temp - entry[1].start_temp = 25000
    /\ fault = "(T2 - T1) / dT =/= 0"
    /\ ramps = <<>>

\* C17: the frequency list of every ramp in the ramp list has
\* points_per_decade * log10(fmax / fmin) points, is strictly descending,
\* starts at fmax and ends at fmin.
C17_FrequencyList ==
    \A i \in DOMAIN ramps :
        LET r == ramps[i]
        IN  /\ 1000 * Len(r.frange) = r.ppd * (r.fmax - r.fmin)
            /\ \A k \in 1..(Len(r.frange) - 1) : r.frange[k] > r.frange[k + 1]
            /\ r.frange # <<>>
            /\ r.frange[1] = r.fmax
            /\ r.frange[Len(r.frange)] = r.fmin

\* C18: a ramp is appended only if it meets every limit, and an entry that
\* breaks a limit is answered with a fault name, the ramp list and the ramp
\* counter staying as they were.
C18_ViolationNamesFault ==
    entry # <<>> =>
        LET e == entry[1]
            a == AnalyserAttrs(analyser_kind)
            stored_rate == IF e.end_temp < e.start_temp /\ e.rate > 15000
                             THEN 15000 ELSE e.rate
            valid ==
                /\ 0 <= e.start_temp /\ e.start_temp <= 500000
                /\ 0 <= e.end_temp /\ e.end_temp <= 500000
                /\ 1000 <= stored_rate /\ stored_rate <= 30000
                /\ a.min_V <= e.voltage /\ e.voltage <= a.max_V
                /\ a.min_frequency <= e.fmin /\ e.fmax <= a.max_frequency
                /\ e.fmin < e.fmax
                /\ Abs(e.interval) >= 1
                /\ IsMultiple(e.end_temp - e.start_temp, e.interval)
                /\ 1 <= e.min_holdtime /\ e.min_holdtime <= 30000000
                /\ e.ppd >= 1 /\ e.num_sweeps >= 0 /\ e.sweep_delay >= 5
                /\ e.scan_at_first_T \in {"y", "n"}
        IN  /\ fault = None => valid
            /\ ~valid =>
                 /\ fault \in {"Start Temp", "End Temp", "Rate", "(T2 - T1) / dT =/= 0",
                               "Interval", "Minimum Holdtime", "Voltage",
                               "fmin >= fmax", "Minimum Frequency",
                               "Maximum Frequency", "PPD", "#Sweeps", "Sweep Delay",
                               "Scan @ first T y/n"}
                 /\ ramp_count = Len(ramps)

\* C19: with every analyser the page reads the four limits and sanity_check
\* gives a verdict: no missing limit stops the page or the check.
C19_EveryAnalyserHasLimits ==
    /\ page_pc # "ctor_failed"
    /\ fault # "AttributeError"

\* C20: a ramp enters the list with the rate min(rate, 15) when it descends
\* and with the entered rate when it ascends or stays; every other entered
\* value is stored as entered, the interval up to its sign and the scan flag
\* as the boolean of y/n.
C20_RateClampedOnlyWhenCooling ==
    [][Len(ramps') > Len(ramps) =>
        LET r == ramps'[Len(ramps')]
            e == entry'[1]
        IN  /\ r.rate = IF e.end_temp < e.start_temp
                          THEN Min(e.rate, 15000) ELSE e.rate
            /\ r.start_temp = e.start_temp /\ r.end_temp = e.end_temp
            /\ Abs(r.interval) = Abs(e.interval)
            /\ r.min_holdtime = e.min_holdtime /\ r.voltage = e.voltage
            /\ r.fmin = e.fmin /\ r.fmax = e.fmax /\ r.ppd = e.ppd
            /\ r.num_sweeps_at_T = e.num_sweeps
            /\ r.sweep_delay = e.sweep_delay
            /\ r.scan_at_first_T = (IF e.scan_at_first_T = "y" THEN "True" ELSE "False")]_vars

C20_Witness ==
    /\ ramps # <<>>
    /\ entry[1].end_temp < entry[1].start_temp
    /\ entry[1].rate = 40000
    /\ ramps[1].rate = 15000
    /\ fault = None


(***************************************************************************)
(* Claims about the threads of the running experiment, checked under Spec. *)
(***************************************************************************)
\* C11: the ramp, point and sweep indication, the elapsed time, the
\* completion flag, the cancellation flag and details.json are written by
\* steps of the experiment thread only.
C11_ControlThreadOnlyWriter ==
    [][(\/ info_data'.Ramp # info_data.Ramp
        \/ info_data'.TemperaturePoint # info_data.TemperaturePoint
        \/ info_data'.ImpedanceSweep # info_data.ImpedanceSweep
        \/ info_data'.TimeElapsed # info_data.TimeElapsed
        \/ ToString(complete') # ToString(complete)
        \/ ToString(stop_thread') # ToString(stop_thread)
        \/ details' # details) => ExperimentStep]_vars

\* C12: every sweep that was started has its line in experiment_log, and
\* when a measurement thread has died of a failed read the log holds a line
\* about it before the experiment thread goes on.
C12_FailureLoggedBeforeAdvance ==
    \A id \in DOMAIN zthreads :
        /\ \E k \in DOMAIN experiment_log :
               experiment_log[k].status[1] = "Beginning sweep"
        /\ (zthreads[id].pc = "dead"
            /\ (id # Z_measurement_thread \/ c_pc \notin {"performing", "wait_Z"}))
           => \E k \in DOMAIN experiment_log :
                  experiment_log[k].status[1] \notin
                      {"Experiment Log File", "Experiment is Starting.",
                       "Heating/Cooling to",
                       "Temperature not T, holding",
                       "Holding at T", "No sweeps to be carried during this ramp.",
                       "Waiting to perform next impedance sweep", "Beginning sweep",
                       "Performing sweep", "Experiment Complete",
                       "Stop button used / user interrupt.", "Program Ended"}

\* C13: once a measurement thread has died of a failed analyser call the
\* experiment thread starts no further sweep and drives the stage to no
\* further set-point.
C13_AnalyserErrorAborts ==
    [][(\E id \in DOMAIN zthreads : zthreads[id].pc = "dead") =>
          /\ Z_measurement_thread' = Z_measurement_thread
          /\ stage_target' # stage_target => stage_target' = <<>>]_vars

\* C16: the first set-point the stage is driven to and held at in a ramp is
\* the ramp's start_temp, and with scan_at_first_T false no sweep is made
\* there.
C16_StartTempStillHeated ==
    \A j \in DOMAIN points_done :
        (j = 1 \/ points_done[j - 1][1] # points_done[j][1]) =>
            LET r == ramps[points_done[j][1]]
            IN  /\ points_done[j][2] = r.start_temp
                /\ r.scan_at_first_T = "False" => points_done[j][3] = 0

(***************************************************************************)
(* Claims about the thermal steps of a temperature point.                  *)
(***************************************************************************)
\* C21: hold is engaged only by the experiment thread at the end of the
\* Reaching loop, when the last hold time read from the stage was positive
\* and the temperature read after it lies within one degree of the set-point;
\* a temperature read outside that band sends the thread back to start
\* heating for the same set-point, however many times it has done so before,
\* and that step issues start_heating for this set-point again
C21_ReachingRetry ==
    [][/\ (stage_hold' /\ ~stage_hold) =>
             /\ c_pc = "hold_on"
             /\ point_calls.hold_read # <<>> /\ point_calls.hold_read[1] > 0
             /\ point_calls.T_read # <<>>
             /\ Abs(point_calls.T_read[1] - temp) <= 1000
       /\ (c_pc = "wait_hold" /\ c_pc' # "wait_hold") =>
             c_pc' = "check" /\ point_calls'.hold_read[1] > 0
       /\ (c_pc = "check" /\ c_pc' # "check") =>
             /\ ramp_idx' = ramp_idx /\ temp_interval_num' = temp_interval_num
             /\ stage_hold' = stage_hold
             /\ IF Abs(point_calls'.T_read[1] - temp) <= 1000
                  THEN c_pc' = "hold_on"
                  ELSE c_pc' = "heat"
       /\ (c_pc = "heat" /\ c_pc' # "heat") =>
             /\ stage_target' = <<temp>>
             /\ c_pc' = "wait_hold"
             /\ ~first_iter => point_calls'.restarts =
                                  Min(point_calls.restarts + 1, MaxRestarts)]_vars

\* hold is about to be engaged after MaxRestarts passes of the Reaching loop
\* that read a temperature outside the band
C21_Witness ==
    /\ c_pc = "hold_on"
    /\ ~terminated
    /\ point_calls.restarts = MaxRestarts
    /\ MaxRestarts >= 2
    /\ point_calls.hold_read = <<1>>
    /\ point_calls.T_read = <<30204>>
    /\ temp = 30000

\* the positions of the experiment thread from the start of the hold time of
\* a temperature point to the release of the hold
HeldPcs == {"dwell", "sweeps", "delay", "tcell", "launch", "performing", "wait_Z",
            "hold_off"}

\* C22: on every stage, once the hold time of a temperature point has begun
\* the experiment thread has read a temperature within the stage's tolerance
\* of the set-point since it engaged the hold
C22_DwellOnlyAfterSettled ==
    c_pc \in HeldPcs => \E k \in DOMAIN point_events : point_events[k] = "settled"

\* the seconds of hold time the experiment thread has slept at the point it is at
TicksSlept == Cardinality({k \in DOMAIN point_events : point_events[k] = "tick"})

\* C23: during the hold time of a temperature point the counter runs from
\* min_holdtime down to 0, one for each second slept, so that the seconds
\* slept and the counter add up to min_holdtime; when the hold time is over
\* exactly min_holdtime seconds have been slept and the counter is 0; the
\* experiment thread reads no temperature during the hold time, whatever the
\* sampler reads beside it
C23_DwellIsMinHoldtime ==
    /\ c_pc = "dwell" =>
         /\ holdtime_remaining \in 0..ramp.min_holdtime
         /\ TicksSlept = ramp.min_holdtime - holdtime_remaining
         /\ point_calls.T_read = <<>>
    /\ c_pc \in HeldPcs \ {"dwell"} =>
         /\ holdtime_remaining = 0
         /\ TicksSlept = ramp.min_holdtime

\* a hold time of two seconds is over, the sampler having written beside it
C23_Witness ==
    /\ c_pc = "sweeps"
    /\ ramp.min_holdtime = 2
    /\ TicksSlept = 2
    /\ holdtime_remaining = 0
    /\ samples_written # <<>>

\* the positions of the experiment thread in the Reaching loop of a point
ReachingPcs == {"heat", "wait_hold", "check", "hold_on"}

\* C24: at a temperature point toggle_hold has not been called while the
\* experiment thread is in the Reaching loop, has been called once, after the
\* temperature was found reached, from the Settling loop until the sweeps of
\* the point are over, and has been called twice when the point is left; so
\* the hold is on during the Settling loop, the hold time and every sweep of
\* the point, a measurement thread only runs with the hold on, and the hold
\* is off whenever heating is started
C24_HoldToggledTwice ==
    /\ c_pc \in ReachingPcs => point_calls.toggles = 0 /\ ~stage_hold
    /\ c_pc \in HeldPcs \cup {"settle"} =>
         /\ point_calls.toggles = 1
         /\ stage_hold
         /\ point_events # <<>> /\ point_events[1] = "reached"
    /\ c_pc \notin ReachingPcs \cup HeldPcs \cup {"settle"} =>
         /\ ~stage_hold
         /\ point_calls.toggles = IF points_done = <<>> THEN 0 ELSE 2
    /\ AliveThreads # {} => stage_hold

\* the second point of a run has been left and its hold released
C24_Witness ==
    /\ c_pc = "point"
    /\ Len(points_done) = 2
    /\ point_calls.toggles = 2
    /\ ~stage_hold
    /\ \E k \in DOMAIN experiment_log : experiment_log[k].status[1] = "Performing sweep"

\* C25: before the first sweep of a temperature point the experiment thread
\* waits no second, and before every other sweep it sleeps sweep_delay
\* seconds, one at a time; the temperature passed to a measurement thread as
\* Tcell has been read from the stage after that wait and before the thread
\* is launched
C25_DelayThenTcell ==
    /\ c_pc = "delay" =>
         /\ sweep_num > 0
         /\ point_calls.waited = seconds_elapsed
         /\ seconds_elapsed <= ramp.sweep_delay
    /\ c_pc \in {"tcell", "launch"} =>
         point_calls.waited = IF sweep_num = 0 THEN 0 ELSE ramp.sweep_delay
    /\ c_pc = "launch" => point_calls.tcell_read
    /\ c_pc \in {"performing", "wait_Z"} =>
         /\ zthreads[Z_measurement_thread].sweep_num = sweep_num
         /\ ToString(zthreads[Z_measurement_thread].Tcell) = ToString(Tcell)

\* the second sweep of a point is about to be launched after its delay
C25_Witness ==
    /\ c_pc = "launch"
    /\ sweep_num = 1
    /\ point_calls.waited = 5
    /\ ramp.sweep_delay = 5
    /\ point_calls.tcell_read

\* the sweeps launched at the points left so far
RECURSIVE SweepsDone(_)
SweepsDone(done) ==
    IF done = <<>> THEN 0 ELSE done[1][3] + SweepsDone(Tail(done))

\* the sweeps launched at the point the experiment thread is at
SweepsHere == Cardinality({k \in DOMAIN point_events : point_events[k] = "sweep"})

\* the lines of the status log that say a point has no sweeps, for ramp n
NoSweepLines(n) ==
    Cardinality({k \in DOMAIN experiment_log :
                   /\ experiment_log[k].status[1] = "No sweeps to be carried during this ramp."
                   /\ experiment_log[k].ramp[1] = n})

\* the points of ramp n left so far
PointsLeftOf(n) == Cardinality({k \in DOMAIN points_done : points_done[k][1] = n})

\* C26: every point left has had as many measurement threads launched as its
\* ramp has sweeps, and no thread is launched but those; for a ramp without
\* sweeps no thread and no sweep file exists, and each of its points is left
\* after the Reaching check, the Settling loop and min_holdtime seconds of
\* hold, with one status line logged for it and the hold released
C26_SweepsPerPoint ==
    /\ \A k \in DOMAIN points_done :
         points_done[k][3] = ramps[points_done[k][1]].num_sweeps_at_T
    /\ Z_measurement_thread = SweepsDone(points_done) + SweepsHere
    /\ c_pc \in HeldPcs \cup ReachingPcs \cup {"settle"} =>
         SweepsHere <= ramp.num_sweeps_at_T
    /\ \A n \in DOMAIN ramps :
         ramps[n].num_sweeps_at_T = 0 =>
            /\ \A id \in DOMAIN zthreads : zthreads[id].ramp # n
            /\ \A path \in DOMAIN files : SubSeq(path, 1, 2) # RampDir(ramps[n])
            /\ NoSweepLines(n) = PointsLeftOf(n) +
                 (IF c_pc = "hold_off" /\ ramp_idx = n THEN 1 ELSE 0)
    /\ (c_pc = "hold_off" /\ ramp.num_sweeps_at_T = 0) =>
         point_events = PointReady /\ stage_hold /\ holdtime_remaining = 0

\* a ramp of one sweep a point and a ramp of two points without sweeps are over
C26_Witness ==
    /\ Len(points_done) = 3
    /\ points_done[1][3] = 1
    /\ points_done[2][3] = 0 /\ points_done[3][3] = 0
    /\ NoSweepLines(2) = 2
    /\ ~stage_hold
    /\ DOMAIN files # {}

\* the set-points of the ramps in the order of the ramp list
PlannedTargets ==
    [k \in DOMAIN PlannedPoints(1) |-> <<PlannedPoints(1)[k][1], PlannedPoints(1)[k][2]>>]

\* heating has been started for the point the experiment thread is at
HeatingStarted ==
    \/ c_pc \in {"wait_hold", "check", "hold_on", "settle"} \cup HeldPcs
    \/ c_pc = "heat" /\ ~first_iter

\* C27: the set-points heating has been started for, retries left out, are
\* the first points of the list made of the temperature points of the first
\* ramp in their order, then those of the second, and so on: one for each
\* point left and one for the point the experiment thread is at; after the
\* last ramp they are the whole list; the stage is not given any other target;
\* and the directory of a ramp exists when heating is started for one of
\* its points
C27_RampsInOrder ==
    /\ IsPrefix(point_calls.heated, PlannedTargets)
    /\ Len(point_calls.heated) = Len(points_done) + (IF HeatingStarted THEN 1 ELSE 0)
    /\ \A k \in DOMAIN points_done :
         <<points_done[k][1], points_done[k][2]>> = point_calls.heated[k]
    /\ ramp_idx > Len(ramps) => point_calls.heated = PlannedTargets
    /\ stage_target # <<>> =>
         /\ point_calls.heated # <<>>
         /\ stage_target[1] = point_calls.heated[Len(point_calls.heated)][2]
    /\ \A k \in DOMAIN point_calls.heated :
         RampDir(ramps[point_calls.heated[k][1]]) \in dirs

\* heating has been started for the second point of the second ramp
C27_Witness ==
    /\ Len(ramps) = 2
    /\ point_calls.heated = <<<<1, 30000>>, <<2, 30000>>, <<2, 40000>>>>
    /\ c_pc = "wait_hold"
    /\ stage_target = <<40000>>
    /\ dirs = {<<1, "down">>, <<2, "up">>, <<1, "down", 30000>>}

\* the lines of the status log of one kind
LinesOfKind(kind) == {k \in DOMAIN experiment_log : experiment_log[k].status[1] = kind}

\* those written at the point of ramp n with set-point t
LinesAt(kind, n, t) ==
    Cardinality({k \in LinesOfKind(kind) :
                   experiment_log[k].ramp[1] = n /\ experiment_log[k].temp_point[1] = t})

\* the hold loop has logged its status at the point the experiment thread is at
HoldLogged == c_pc \in HeldPcs /\ (c_pc = "dwell" => ~first_iter)

\* C28: the status log holds one Heating/Cooling line for each set-point
\* heating has been started for, however often the Reaching loop has been
\* run again, at most one not-at-temperature line for a point, and one
\* Holding line for each point whose hold loop has run, however many seconds
\* it has held
C28_StateLoggedOnce ==
    /\ Cardinality(LinesOfKind("Heating/Cooling to")) = Len(point_calls.heated)
    /\ \A k \in DOMAIN point_calls.heated :
         LET n == point_calls.heated[k][1]
             t == point_calls.heated[k][2]
         IN  /\ LinesAt("Heating/Cooling to", n, t) = 1
             /\ LinesAt("Temperature not T, holding", n, t) <= 1
             /\ LinesAt("Holding at T", n, t) =
                  IF k <= Len(points_done) \/ HoldLogged THEN 1 ELSE 0
    /\ Cardinality(LinesOfKind("Temperature not T, holding")) <= Len(point_calls.heated)
    /\ Cardinality(LinesOfKind("Holding at T")) <= Len(point_calls.heated)

\* the Reaching loop of the third point has been run again MaxRestarts times,
\* after a point held for two seconds
C28_Witness ==
    /\ c_pc = "hold_on"
    /\ point_calls.restarts = MaxRestarts
    /\ MaxRestarts >= 2
    /\ Len(point_calls.heated) = 3
    /\ LinesAt("Heating/Cooling to", 2, 40000) = 1
    /\ LinesAt("Holding at T", 2, 30000) = 1
    /\ ramps[2].min_holdtime = 2

(***************************************************************************)
(* Claims about the sweep files.                                           *)
(***************************************************************************)
\* the frequency list of the ramp whose directory a sweep file lies in
FrangeOf(path) == ramps[path[1]].frange

WellFormed(result) == Len(Split(result)) >= 3

\* C30: a reply that is not a well-formed result is not written to the sweep
\* file: every row of the file is well formed, a thread about to write holds
\* a well-formed result, and a malformed reply to the first read of a
\* frequency is followed by the read at 1 Hz and the second read
C30_MalformedIsRetried ==
    \A id \in DOMAIN zthreads :
        LET z == zthreads[id]
        IN  /\ \A k \in DOMAIN Rows(z) : WellFormed(Rows(z)[k])
            /\ z.pc = "write" => WellFormed(z.result)
            /\ \A k \in DOMAIN z.calls :
                 (z.calls[k].ok /\ ~WellFormed(z.calls[k].res)) => z.pc # "write"

\* C34: the second header line of every sweep file names the sweep the file
\* is of: its setT field is the set-point of the file's directory and name,
\* and its sweep number is the number in the file's name
C34_HeaderNamesSweep ==
    \A path \in DOMAIN files :
        LET fields == Split(files[path][2])
        IN  /\ fields[5] = <<ToString(path[3])>>
            /\ fields[1] = <<ToString(path[4])>>


\* positions of the control thread after line 906 has written complete = true
CompletionWritten == {"stop_stage", "save_plot", "set_complete", "finished"}

\* C36: once the control thread has written complete = true, details.json
\* never records complete = false again, and neither the stop handler nor the
\* control thread reads the file while the other has emptied it for writing
C36_CompletionMonotone ==
    [][/\ c_pc' \in CompletionWritten => (details'.empty \/ details'.complete)
       /\ (gui_pc = "stop_read" /\ gui_pc' # "stop_read") => ~details.empty
       /\ (c_pc = "read_details" /\ c_pc' # "read_details") => ~details.empty]_vars


\* C37: the sampler thread reads the stop flag (line 844), the start time
\* (line 846) and the completion flag (line 849) only after each has been
\* assigned
C37_ReadsAfterAssignment ==
    [][/\ (t_pc = "check" /\ t_pc' # "check") =>
              ToString(stop_thread) # ToString(None)
       /\ (t_pc = "sample" /\ t_pc' # "sample") =>
              /\ start_time # <<>>
              /\ ToString(complete) # ToString(None)]_vars



(***************************************************************************)
(* Editing the ramp list: Create Ramp, Clear Prev and Clear All on the     *)
(* ramp input page, with lists of up to MaxListed ramps.                   *)
(***************************************************************************)
\* What the operator types while editing: an ascending ramp with two sweeps
\* at each point, a descending one, two ramps that start where they end (scanned at the first
\* temperature or not), and an entry that is rejected
EditEntries ==
    {[DefaultEntry EXCEPT !.start_temp = t[1], !.end_temp = t[2], !.fmin = 0,
                          !.fmax = 1000, !.ppd = 1, !.scan_at_first_T = y,
                          !.num_sweeps = IF t[1] < t[2] THEN 2 ELSE 1] :
        t \in {<<30000, 50000>>, <<50000, 30000>>, <<30000, 30000>>},
        y \in {"y", "n"}}
    \cup {[DefaultEntry EXCEPT !.end_temp = 55000]}

\* clear_prev that pops the ramp and leaves the counter as it was
clear_prevKeepsCount ==
    /\ page_pc = "form"
    /\ ramp_count > 0
    /\ ramps' = SubSeq(ramps, 1, Len(ramps) - 1)
    /\ UNCHANGED <<ramp_count, stage_kind, analyser_kind, analyser_replies, nameVars, page_pc,
                   fault, entry, clock, terminated, guiVars, attrVars, ctlVars,
                   samplerVars, measVars, stageVars, fileVars, histVars, ctlHist>>

\* RampInputPage.clear_all, lines 313-322: the list is emptied and the
\* counter set to 0
clear_all ==
    /\ page_pc = "form"
    /\ ramps' = <<>>
    /\ ramp_count' = 0
    /\ UNCHANGED <<stage_kind, analyser_kind, analyser_replies, nameVars, page_pc, fault,
                   entry, clock, terminated, guiVars, attrVars, ctlVars,
                   samplerVars, measVars, stageVars, fileVars, histVars, ctlHist>>

\* RampInputPage.clear_prev, lines 324-330: with a counter above 0 the last
\* ramp is popped and the counter decremented (the button does nothing
\* otherwise); ramps.pop() on an empty list would raise IndexError and leave
\* the counter
clear_prev ==
    /\ page_pc = "form"
    /\ ramp_count > 0
    /\ IF ramps = <<>>
         THEN UNCHANGED <<ramps, ramp_count>>
         ELSE /\ ramps' = SubSeq(ramps, 1, Len(ramps) - 1)
              /\ ramp_count' = ramp_count - 1
    /\ UNCHANGED <<stage_kind, analyser_kind, analyser_replies, nameVars, page_pc, fault,
                   entry, clock, terminated, guiVars, attrVars, ctlVars,
                   samplerVars, measVars, stageVars, fileVars, histVars, ctlHist>>

\* ReviewRampsPage.process_ramps raises IndexError: line 559 reads
\* ramp.temps[0] of every ramp and line 558 reads ramps[i - 1].temps[-1] for
\* every ramp but the first
ProcessRaises(rs) ==
    \E i \in DOMAIN rs :
        \/ rs[i].temps = <<>>
        \/ rs[i].num # 1 /\ rs[i - 1].temps = <<>>

\* RampInputPage.save_ramps with a ramp list that is not empty (lines 446-466):
\* the input form is destroyed and ReviewRampsPage is constructed, whose
\* __init__ calls process_ramps (line 477)
save_ramps ==
    /\ page_pc = "form"
    /\ Len(ramps) > 0
    /\ page_pc' = IF ProcessRaises(ramps) THEN "review_failed" ELSE "review"
    /\ UNCHANGED <<ramps, ramp_count, stage_kind, analyser_kind, analyser_replies, nameVars,
                   fault, entry, clock, terminated, guiVars, attrVars, ctlVars,
                   samplerVars, measVars, stageVars, fileVars, histVars, ctlHist>>

\* ReviewRampsPage.start_over, lines 494-500: back to a new RampInputPage
start_over ==
    /\ page_pc = "review"
    /\ page_pc' = "init"
    /\ UNCHANGED <<ramps, ramp_count, stage_kind, analyser_kind, analyser_replies, nameVars,
                   fault, entry, clock, terminated, guiVars, attrVars, ctlVars,
                   samplerVars, measVars, stageVars, fileVars, histVars, ctlHist>>

EditStep ==
    \/ PageInit
    \/ \E e \in EditEntries : input_ramp(e, MaxListed)
    \/ clear_prev
    \/ clear_all
    \/ save_ramps
    \/ start_over

SpecEdit == InitPlan /\ [][EditStep]_vars


(***************************************************************************)
(* Claims about the edited ramp list, checked under SpecEdit.              *)
(***************************************************************************)
\* C39: after any sequence of Create Ramp, Clear Prev and Clear All the ramp
\* counter is the length of the ramp list and the i-th ramp of the list has
\* num i
C39_IndicesWithoutGaps ==
    /\ ramp_count = Len(ramps)
    /\ \A i \in DOMAIN ramps : ramps[i].num = i

\* two ramps were created, the second cleared and another created in its place
C39_Witness ==
    /\ Len(ramps) = 2
    /\ ramps[2].num = 2
    /\ ramps[2].start_temp > ramps[2].end_temp
    /\ ramps[1].start_temp < ramps[1].end_temp
    /\ entry # <<>> /\ entry[1].end_temp = 55000


\* C32: a ramp whose start_temp equals its end_temp is ascending with
\* num_intervals = 0 and the single point start_temp, or no point at all when
\* it is not scanned at the first temperature, and the review of a list with
\* such a ramp proceeds without error
C32_EqualEndsProceed ==
    /\ \A i \in DOMAIN ramps :
         ramps[i].start_temp = ramps[i].end_temp =>
             /\ ramps[i].up
             /\ ramps[i].num_intervals = 0
             /\ ramps[i].temps = IF ramps[i].scan_at_first_T = "True"
                                   THEN <<ramps[i].start_temp>> ELSE <<>>
    /\ page_pc # "review_failed"


\* the sweeps an experiment with the listed ramps takes: the ramp, the
\* 0-based number of the temperature point and the 0-based number of the sweep
ListedSweeps ==
    {s \in (DOMAIN ramps) \X (0..3) \X (0..2) :
        /\ s[2] < Len(ramps[s[1]].temps)
        /\ s[3] < ramps[s[1]].num_sweeps_at_T}

\* the file the sweep s is written to
PathOfSweep(s) == ZFilePath(measure_impedance(s[1], s[3], 0, s[2]))

\* C38: any two distinct sweeps of the listed ramps (differing in ramp,
\* temperature point or sweep number) are written to distinct file paths,
\* and no two ramps of the list have the same ramp directory
C38_SweepPathsDistinct ==
    /\ \A s, t \in ListedSweeps : s # t => PathOfSweep(s) # PathOfSweep(t)
    /\ \A i, j \in DOMAIN ramps : i # j => RampDir(ramps[i]) # RampDir(ramps[j])

\* an ascending ramp with two sweeps per point followed by a descending ramp
\* over the same temperatures
C38_Witness ==
    /\ Len(ramps) = 2
    /\ ramps[1].up /\ ~ramps[2].up
    /\ ramps[1].temps = <<30000, 40000, 50000>>
    /\ ramps[2].temps = <<50000, 40000, 30000>>
    /\ <<1, 1, 1>> \in ListedSweeps
    /\ <<2, 1, 0>> \in ListedSweeps



(***************************************************************************)
(* Choosing the directory of the experiment on the start page. A name is   *)
(* the sequence of its parts between "_", as split("_") gives them.        *)
(***************************************************************************)
\* names the operator may type; the last is the empty name
TypedNames == {<<"run">>, <<"run", "a">>, <<"run", "0">>, <<"">>}

\* directories that may exist in "experiments" already
ExistingNames ==
    {<<"run">>, <<"run", "1">>, <<"run", "2">>, <<"run", "a">>, <<"run", "a", "1">>,
     <<"run", "0">>}

\* os.path.isdir("experiments\\" + name): the empty name is the directory
\* "experiments" itself, made at line 186
IsDir(name) == name = <<"">> \/ name \in experiments

\* lines 193-196: the name tried after name was found taken
NextName(name, num) ==
    IF name[Len(name)] = ToString(num - 1)
      THEN <<name[1], ToString(num)>>
      ELSE name \o <<ToString(num)>>

\* StartPage.start_button_func, one pass of the loop of lines 188-197
start_button_func ==
    /\ start_pc = "loop"
    /\ IF ~IsDir(experiment_name)
         THEN /\ experiments' = experiments \cup {experiment_name}
              /\ start_pc' = "created"
              /\ UNCHANGED <<experiment_name, duplicate_num>>
         ELSE /\ experiment_name' = NextName(experiment_name, duplicate_num)
              /\ duplicate_num' = duplicate_num + 1
              /\ UNCHANGED <<experiments, start_pc>>
    /\ UNCHANGED <<name_entry, ramps, stage_kind, analyser_kind, analyser_replies,
                   ramp_count, page_pc, fault, entry, clock, terminated, guiVars,
                   attrVars, ctlVars, samplerVars, measVars, stageVars, fileVars,
                   histVars, ctlHist>>

\* the START button is pressed: lines 179 and 187
InitName ==
    /\ name_entry \in TypedNames
    /\ experiment_name = name_entry
    /\ duplicate_num = 1
    /\ experiments \in SUBSET ExistingNames
    /\ start_pc = "loop"
    /\ ramps = <<>>
    /\ stage_kind = "virtual"
    /\ analyser_kind = "virtual"
    /\ ramp_count = 0
    /\ page_pc = "init"
    /\ fault = None
    /\ entry = <<>>
    /\ analyser_replies = "well_formed"
    /\ NotStarted

NameStep == start_button_func

SpecName == InitName /\ [][NameStep]_vars

\* C33: the directory start_button_func creates did not exist before, and its
\* name is the name typed if that was free and otherwise the name typed with
\* a suffix _N for a positive integer N
C33_NameDeduplicated ==
    [][(start_pc # "created" /\ start_pc' = "created") =>
          /\ ~IsDir(experiment_name')
          /\ experiments' = experiments \cup {experiment_name'}
          /\ IF ~IsDir(name_entry)
               THEN experiment_name' = name_entry
               ELSE \E N \in 1..(Cardinality(ExistingNames) + 1) :
                        experiment_name' = name_entry \o <<ToString(N)>>]_vars



(***************************************************************************)
(* SP_200.measure_impedance_process and get_result (biologic.py): one      *)
(* sweep of the batch backend, the instrument handing out data blocks.     *)
(***************************************************************************)
\* columns of a row of process 1, of which get_result uses the first four
NbCols == 4

\* what BL_GetData may fill in: the process the block is of and its rows
DataBlocks == [ProcessIndex : {0, 1}, NbRows : {0, 1, 2}]

\* get_result that takes the data of a block of any process
ReceivedAny(block) == block.NbRows * NbCols

\* lines 316-322: the number of values get_result appends to data
Received(block) ==
    IF block.ProcessIndex = 1 THEN block.NbRows * NbCols ELSE 0

\* line 324 and line 300: the row of the block that is the n-th of the
\* sweep, its data[0] standing for the values of the block
BlockRow(n) == <<ToString(n), ",", "mag", ",", "arg">>

\* blocks of the thread that get_result went on polling after
Discarded(z) == SelectSeq(z.calls, LAMBDA c : ~c.kept /\ ~c.error)

\* lines 246-293: the directory and the sweep file with its header, the
\* parameters, the technique and the channel, each of which may raise
SPStart(id) ==
    /\ ZActive(id, "start")
    /\ analyser_kind = "SP_200"
    /\ LET z == zthreads[id]
       IN  /\ dirs' = dirs \cup {ZTempDir(z)}
           /\ files' = (ZFilePath(z) :> SweepHeader(z)) @@ files
           /\ \E raised \in BOOLEAN :
                zthreads' = [zthreads EXCEPT ![id].pc =
                               IF raised THEN "dead"
                               ELSE IF ZRamp(z).numpoints = 0 THEN "done"
                               ELSE "get_result"]
    /\ UNCHANGED <<measNever, info_data, failures>>

\* lines 307-322, one pass of the loop of get_result: BL_GetData fills in a
\* block or reports an error; a block that leaves data empty is followed by
\* another pass, up to maxDiscarded of them
SPGetData(id, maxDiscarded) ==
    /\ ZActive(id, "get_result")
    /\ LET z == zthreads[id]
           n == Len(z.calls) + 1
       IN  \/ \E block \in DataBlocks :
                /\ Received(block) = 0 => Len(Discarded(z)) < maxDiscarded
                /\ zthreads' = [zthreads EXCEPT
                      ![id].calls = Append(z.calls,
                                      [i |-> z.i, block |-> block, error |-> FALSE,
                                       kept |-> Received(block) > 0,
                                       row |-> BlockRow(n)]),
                      ![id].result = IF Received(block) > 0
                                       THEN [row |-> BlockRow(n),
                                             PI |-> block.ProcessIndex]
                                       ELSE z.result,
                      ![id].pc = IF Received(block) > 0 THEN "write"
                                 ELSE "get_result"]
           \/ /\ Len(SelectSeq(z.calls, LAMBDA c : c.error)) = 0
              /\ zthreads' = [zthreads EXCEPT
                    ![id].calls = Append(z.calls,
                                    [i |-> z.i, block |-> [ProcessIndex |-> 0,
                                                           NbRows |-> 0],
                                     error |-> TRUE, kept |-> FALSE,
                                     row |-> BlockRow(n)]),
                    ![id].pc = "dead"]
    /\ UNCHANGED <<measNever, info_data, dirs, files, failures>>

\* lines 297-300: the row is appended when the result is of process 1; next
\* frequency or the end of the thread
SPWrite(id) ==
    /\ ZActive(id, "write")
    /\ LET z == zthreads[id]
       IN  /\ files' = IF z.result.PI = 1
                         THEN [files EXCEPT ![ZFilePath(z)] = Append(@, z.result.row)]
                         ELSE files
           /\ zthreads' = [zthreads EXCEPT
                             ![id].i = z.i + 1,
                             ![id].pc = IF z.i + 1 < ZRamp(z).numpoints
                                          THEN "get_result" ELSE "done"]
    /\ UNCHANGED <<measNever, info_data, dirs, failures>>

InitBatch ==
    /\ SweepLaunched
    /\ analyser_replies = "well_formed"
    /\ analyser_kind = "SP_200"
    /\ ramp_count = Len(ramps)
    /\ page_pc = "saved"
    /\ fault = None
    /\ entry = <<>>

BatchStep ==
    \E id \in DOMAIN zthreads :
        SPStart(id) \/ SPGetData(id, MaxDiscarded) \/ SPWrite(id)

SpecBatch == InitBatch /\ [][BatchStep]_vars

\* C31: every row of the sweep file is the row of a block of process 1,
\* a block of another process is followed by another poll and no error, and
\* a sweep that has ended has written numpoints rows
C31_OnlyProcessOneKept ==
    \A id \in DOMAIN zthreads :
        LET z == zthreads[id]
            kept == SelectSeq(z.calls, LAMBDA c : c.kept)
        IN  /\ \A k \in DOMAIN Rows(z) :
                 /\ kept[k].block.ProcessIndex = 1
                 /\ Rows(z)[k] = kept[k].row
            /\ \A k \in DOMAIN z.calls :
                 z.calls[k].block.ProcessIndex # 1 /\ ~z.calls[k].error
                    => ~z.calls[k].kept /\ (k = Len(z.calls) => z.pc = "get_result")
            /\ z.pc = "done" => Len(Rows(z)) = ZRamp(z).numpoints

\* a sweep has ended after blocks of process 0 were discarded twice
C31_Witness ==
    \E id \in DOMAIN zthreads :
        /\ zthreads[id].pc = "done"
        /\ Len(Rows(zthreads[id])) = MaxSweepPoints
        /\ \E k \in DOMAIN zthreads[id].calls :
             /\ zthreads[id].calls[k].block = [ProcessIndex |-> 0, NbRows |-> 1]
             /\ k + 1 \in DOMAIN zthreads[id].calls
             /\ zthreads[id].calls[k + 1].kept



(***************************************************************************)
(* The running experiment when STOP is never pressed, every thread that    *)
(* can take a step taking one in the end.                                  *)
(***************************************************************************)
\* the steps of RunningPage.__init__
CtorStep == GuiSetupPlot \/ GuiStartThread \/ GuiStartTime \/ GuiReadDatetime

NextUnstopped ==
    \/ CtorStep \/ FinishPressed \/ FinishExit
    \/ ExperimentStep \/ SamplerStep \/ MeasurementStep \/ Tick(MaxClock)

\* values of the types the assignments give later; none of the attributes
\* and variables that start with them is read before it is assigned
UnsetTyped == [flag |-> FALSE, number |-> 0, dict |-> InitDetails]

InitUnstopped ==
    /\ \E e \in Experiments : ramps = e.ramps /\ stage_kind = e.stage
    /\ InitRampsSaved
    /\ analyser_replies = "well_formed"
    /\ NameChosen
    /\ NotStartedWith(UnsetTyped)

SpecUnstopped ==
    /\ InitUnstopped
    /\ [][NextUnstopped]_vars
    /\ WF_vars(CtorStep)
    /\ WF_vars(ExperimentStep)
    /\ WF_vars(MeasurementStep)

\* the loops of ramp_and_measure that wait for the stage or for a sweep: the
\* Reaching retry loop, the Settling poll and the wait for the measurement
\* thread
WaitingPcs == {"heat", "wait_hold", "check", "settle", "wait_Z"}

\* C35: with no stop requested and every thread scheduled, the experiment
\* thread in the end writes complete = true to details.json, unless it stays
\* for ever in the Reaching retry loop, the Settling poll or the wait for a
\* measurement thread
C35_CompletesUnlessWaiting ==
    <>(~details.empty /\ details.complete) \/ <>[](c_pc \in WaitingPcs)

\* the last ramp is done after the Reaching loop heated again, and
\* completion is written
C35_Witness ==
    /\ stop_presses = 0
    /\ ~details.empty /\ details.complete
    /\ c_pc = "finished"
    /\ Len(points_done) > 0

==============================================================================
